---- MODULE Spec2Model ----
(***************************************************************************)
(* Model of the bounded site crawler of the Traffic Bifurcate application  *)
(* (POST handler of the sitemap crawl route, its URL normalizer, host and  *)
(* path filters and the robots.txt evaluator).                             *)
(*                                                                         *)
(* Text is modelled at character level: a string is a sequence of          *)
(* one-character strings, a host name is a sequence of labels.             *)
(***************************************************************************)
EXTENDS Integers, Sequences, FiniteSets, TLC

(***************************************************************************)
(* Program constants.                                                      *)
(***************************************************************************)
MAX_DEPTH == 4

MAX_PAGES == 120

(* STATIC_EXTENSIONS, each extension spelled out as characters. *)
STATIC_EXTENSIONS ==
  { <<".", "j", "p", "g">>,
    <<".", "j", "p", "e", "g">>,
    <<".", "p", "n", "g">>,
    <<".", "g", "i", "f">>,
    <<".", "s", "v", "g">>,
    <<".", "w", "e", "b", "p">>,
    <<".", "i", "c", "o">>,
    <<".", "c", "s", "s">>,
    <<".", "j", "s">>,
    <<".", "p", "d", "f">>,
    <<".", "z", "i", "p">>,
    <<".", "m", "p", "4">>,
    <<".", "m", "p", "3">>,
    <<".", "w", "o", "f", "f">>,
    <<".", "w", "o", "f", "f", "2">>,
    <<".", "t", "t", "f">>,
    <<".", "o", "t", "f">> }

(* BLOCKED_SEGMENTS entry /\/(login|logout|signin|signup|register|auth)\b/i : the alternatives of the group. *)
BlockedAuthWords ==
  { <<"l", "o", "g", "i", "n">>,
    <<"l", "o", "g", "o", "u", "t">>,
    <<"s", "i", "g", "n", "i", "n">>,
    <<"s", "i", "g", "n", "u", "p">>,
    <<"r", "e", "g", "i", "s", "t", "e", "r">>,
    <<"a", "u", "t", "h">> }

(* BLOCKED_SEGMENTS entry /\/(admin|dashboard)\b/i : the alternatives of the group. *)
BlockedAdminWords ==
  { <<"a", "d", "m", "i", "n">>,
    <<"d", "a", "s", "h", "b", "o", "a", "r", "d">> }

(* BLOCKED_SEGMENTS entry /\/(account|profile)\b/i : the alternatives of the group. *)
BlockedAccountWords ==
  { <<"a", "c", "c", "o", "u", "n", "t">>,
    <<"p", "r", "o", "f", "i", "l", "e">> }

(* BLOCKED_SEGMENTS entry /\/(cart|checkout)\b/i : the alternatives of the group. *)
BlockedCartWords ==
  { <<"c", "a", "r", "t">>,
    <<"c", "h", "e", "c", "k", "o", "u", "t">> }

(* BLOCKED_SEGMENTS entry /\/(search|filter|track|query)/i  (no word boundary) : the alternatives of the group. *)
BlockedSearchWords ==
  { <<"s", "e", "a", "r", "c", "h">>,
    <<"f", "i", "l", "t", "e", "r">>,
    <<"t", "r", "a", "c", "k">>,
    <<"q", "u", "e", "r", "y">> }

(* String.prototype.toLowerCase on one character. *)
LowerChar(c) ==
  CASE c = "A" -> "a"
    [] c = "B" -> "b"
    [] c = "C" -> "c"
    [] c = "D" -> "d"
    [] c = "E" -> "e"
    [] c = "F" -> "f"
    [] c = "G" -> "g"
    [] c = "H" -> "h"
    [] c = "I" -> "i"
    [] c = "J" -> "j"
    [] c = "K" -> "k"
    [] c = "L" -> "l"
    [] c = "M" -> "m"
    [] c = "N" -> "n"
    [] c = "O" -> "o"
    [] c = "P" -> "p"
    [] c = "Q" -> "q"
    [] c = "R" -> "r"
    [] c = "S" -> "s"
    [] c = "T" -> "t"
    [] c = "U" -> "u"
    [] c = "V" -> "v"
    [] c = "W" -> "w"
    [] c = "X" -> "x"
    [] c = "Y" -> "y"
    [] c = "Z" -> "z"
    [] OTHER -> c

(* The regular expression class \w. *)
WordChars ==
  {"a", "b", "c", "d", "e", "f", "g", "h", "i", "j", "k", "l", "m",
   "n", "o", "p", "q", "r", "s", "t", "u", "v", "w", "x", "y", "z",
   "A", "B", "C", "D", "E", "F", "G", "H", "I", "J", "K", "L", "M",
   "N", "O", "P", "Q", "R", "S", "T", "U", "V", "W", "X", "Y", "Z",
   "0", "1", "2", "3", "4", "5", "6", "7", "8", "9", "_"}

(***************************************************************************)
(* Text helpers (JavaScript string methods on character sequences).        *)
(***************************************************************************)
Lower(s) == [i \in DOMAIN s |-> LowerChar(s[i])]

StartsWith(s, pre) ==
  /\ Len(pre) <= Len(s)
  /\ SubSeq(s, 1, Len(pre)) = pre

EndsWith(s, suf) ==
  /\ Len(suf) <= Len(s)
  /\ SubSeq(s, Len(s) - Len(suf) + 1, Len(s)) = suf

Includes(s, c) == \E i \in DOMAIN s : s[i] = c

(* Op(x), with x computed a single time before Op reads it. *)
Bind(Op(_), x) == CHOOSE r \in {Op(v) : v \in {x}} : TRUE

(* String.prototype.includes / a regular expression that is a plain text:  *)
(* sub occurs somewhere in s.                                              *)
Contains(s, sub) ==
  \E i \in 1..(Len(s) - Len(sub) + 1) : SubSeq(s, i, i + Len(sub) - 1) = sub

(* String.prototype.trim, for the blank character. *)
RECURSIVE TrimLeft(_)
TrimLeft(s) ==
  IF s # <<>> /\ Head(s) = " " THEN TrimLeft(Tail(s)) ELSE s

RECURSIVE TrimRight(_)
TrimRight(s) ==
  IF s # <<>> /\ s[Len(s)] = " " THEN TrimRight(SubSeq(s, 1, Len(s) - 1)) ELSE s

Trim(s) == TrimRight(TrimLeft(s))

(* String.prototype.split(sep) for a one-character separator. *)
RECURSIVE SplitOn(_, _)
SplitOn(s, sep) ==
  IF ~Includes(s, sep)
  THEN <<s>>
  ELSE LET i == CHOOSE k \in DOMAIN s :
                  s[k] = sep /\ \A j \in 1..(k - 1) : s[j] # sep
       IN  <<SubSeq(s, 1, i - 1)>> \o SplitOn(SubSeq(s, i + 1, Len(s)), sep)

(* Array.prototype.join(sep). *)
RECURSIVE JoinWith(_, _)
JoinWith(parts, sep) ==
  IF parts = <<>> THEN <<>>
  ELSE IF Len(parts) = 1 THEN parts[1]
  ELSE parts[1] \o <<sep>> \o JoinWith(Tail(parts), sep)

(* Skips the leading "/" characters of a string. *)
RECURSIVE TrimLeadingSlashes(_)
TrimLeadingSlashes(p) ==
  IF p # <<>> /\ Head(p) = "/" THEN TrimLeadingSlashes(Tail(p)) ELSE p

(* pathname.replace(/\/$/, ""): one trailing "/" only. *)
StripTrailingSlashes_One(p) ==
  IF p # <<>> /\ p[Len(p)] = "/" THEN SubSeq(p, 1, Len(p) - 1) ELSE p

(* pathname.replace(/\/+$/, "") *)
RECURSIVE StripTrailingSlashes(_)
StripTrailingSlashes(p) ==
  IF p # <<>> /\ p[Len(p)] = "/"
  THEN StripTrailingSlashes(SubSeq(p, 1, Len(p) - 1))
  ELSE p

(***************************************************************************)
(* URLs.  A parsed URL is a record [scheme, host, path, query, frag]:      *)
(* host is a sequence of labels, path, query and frag are character        *)
(* sequences (query and frag without their "?" / "#", empty when absent).  *)
(*                                                                         *)
(* A string handed to normalizeUrl is given by its shape:                  *)
(*   "abs"      scheme://host/path?query#frag  with scheme http or https   *)
(*              in any letter case                                         *)
(*   "noscheme" host/path?query#frag           no scheme, no leading "/"   *)
(*   "rel"      /path?query#frag               a path-absolute reference   *)
(*   "empty"    the empty string                                           *)
(*   "bad"      has an http(s):// prefix but no parsable host              *)
(***************************************************************************)
NoBase == [present |-> FALSE]

WithBase(u) == [present |-> TRUE, url |-> u]

HTTP == <<"h", "t", "t", "p">>

HTTPS == <<"h", "t", "t", "p", "s">>

Url(host, path) ==
  [scheme |-> HTTPS, host |-> host, path |-> path, query |-> <<>>, frag |-> <<>>]

(* url.toString() seen as the next input of normalizeUrl / new URL. *)
Href(u) ==
  [kind |-> "abs", scheme |-> u.scheme, host |-> u.host, path |-> u.path,
   query |-> u.query, frag |-> u.frag]

LowerHost(h) == [i \in DOMAIN h |-> Lower(h[i])]

(* /^https?:\/\//i.test(input) *)
HasProtocol(input) == input.kind \in {"abs", "bad"}

(* The directory of a base path: everything up to and including its last "/". *)
BaseDir(p) ==
  LET last == CHOOSE k \in DOMAIN p : p[k] = "/" /\ \A j \in (k + 1)..Len(p) : p[j] # "/"
  IN  SubSeq(p, 1, last)

(* The text of a "noscheme" input before its "?" : host/path. *)
NoSchemeText(input) ==
  JoinWith(input.host, ".") \o input.path

(* new URL(input), new URL(input, base), new URL(`https://${input}`) as    *)
(* chosen by normalizeUrl; [ok |-> FALSE] when the constructor throws.     *)
ParseTarget(input, base) ==
  CASE input.kind = "bad" -> [ok |-> FALSE]
    [] input.kind = "abs" ->
         [ok |-> TRUE,
          url |-> [scheme |-> Lower(input.scheme),
                   host |-> LowerHost(input.host),
                   path |-> IF input.path = <<>> THEN <<"/">> ELSE input.path,
                   query |-> input.query, frag |-> input.frag]]
    [] input.kind = "empty" ->
         IF base.present
         THEN [ok |-> TRUE, url |-> [base.url EXCEPT !.frag = <<>>]]
         ELSE [ok |-> FALSE]
    [] input.kind = "rel" ->
         IF base.present
         THEN [ok |-> TRUE,
               url |-> [scheme |-> base.url.scheme, host |-> base.url.host,
                        path |-> input.path,
                        query |-> input.query, frag |-> input.frag]]
         ELSE (* "https://" + "/seg/rest": the extra slashes are skipped and *)
              (* the first segment is read as the host.                     *)
              LET rest  == TrimLeadingSlashes(input.path)
                  segs  == SplitOn(rest, "/")
                  first == segs[1]
                  tail  == SubSeq(rest, Len(first) + 1, Len(rest))
              IN  IF first = <<>>
                  THEN [ok |-> FALSE]
                  ELSE [ok |-> TRUE,
                        url |-> [scheme |-> HTTPS,
                                 host |-> LowerHost(SplitOn(first, ".")),
                                 path |-> IF tail = <<>> THEN <<"/">> ELSE tail,
                                 query |-> input.query, frag |-> input.frag]]
    [] input.kind = "noscheme" ->
         IF base.present
         THEN [ok |-> TRUE,
               url |-> [scheme |-> base.url.scheme, host |-> base.url.host,
                        path |-> BaseDir(base.url.path) \o NoSchemeText(input),
                        query |-> input.query, frag |-> input.frag]]
         ELSE [ok |-> TRUE,
               url |-> [scheme |-> HTTPS,
                        host |-> LowerHost(input.host),
                        path |-> IF input.path = <<>> THEN <<"/">> ELSE input.path,
                        query |-> input.query, frag |-> input.frag]]

(* normalizeUrl(input, base): [ok |-> FALSE] when it throws. *)
normalizeUrl(input, base) ==
  LET parsed == ParseTarget(input, base)
  IN  IF ~parsed.ok
      THEN [ok |-> FALSE]
      ELSE LET target   == parsed.url
               stripped == StripTrailingSlashes(target.path)
           IN  [ok |-> TRUE,
                url |-> [scheme |-> HTTPS,
                         host   |-> target.host,
                         path   |-> IF target.path = <<"/">> THEN <<"/">>
                                    ELSE IF stripped = <<>> THEN <<"/">>
                                    ELSE stripped,
                         query  |-> <<>>,
                         frag   |-> <<>>]]

(* normalizeUrl of the extraction library: the URL is parsed without a     *)
(* base, only its fragment is cleared; [ok |-> FALSE] when it throws (an   *)
(* ExtractionError of status 400 in either case).                          *)
normalizeUrlExtraction(input) ==
  LET parsed == ParseTarget(input, NoBase)
  IN  IF ~parsed.ok
      THEN [ok |-> FALSE]
      ELSE IF parsed.url.scheme \notin {HTTP, HTTPS}
      THEN [ok |-> FALSE]
      ELSE [ok |-> TRUE, url |-> [parsed.url EXCEPT !.frag = <<>>]]

(* hostKey: value.replace(/^www\./i, "").toLowerCase() *)
hostKey(host) ==
  LET stripped == IF Len(host) > 1 /\ Lower(host[1]) = <<"w", "w", "w">>
                  THEN Tail(host) ELSE host
  IN  LowerHost(stripped)

isSameHost(root, candidate) == hostKey(root.host) = hostKey(candidate.host)

(* One entry of BLOCKED_SEGMENTS tested on an already lower-cased path:    *)
(* "/" followed by one of the words, then (when boundary) a \b.            *)
MatchesSegment(path, words, boundary) ==
  \E i \in DOMAIN path :
    /\ path[i] = "/"
    /\ \E w \in words :
         /\ i + Len(w) <= Len(path)
         /\ SubSeq(path, i + 1, i + Len(w)) = w
         /\ boundary =>
              \/ i + Len(w) = Len(path)
              \/ path[i + Len(w) + 1] \notin WordChars

isBlockedPath(url) ==
  LET path == Lower(url.path)
  IN  \/ \E ext \in STATIC_EXTENSIONS : EndsWith(path, ext)
      \/ MatchesSegment(path, BlockedAuthWords, TRUE)
      \/ MatchesSegment(path, BlockedAdminWords, TRUE)
      \/ MatchesSegment(path, BlockedAccountWords, TRUE)
      \/ MatchesSegment(path, BlockedCartWords, TRUE)
      \/ MatchesSegment(path, BlockedSearchWords, FALSE)

(* buildAiUrl(url, domain): `https://ai.${domain}${path}` *)
buildAiUrl(url, domain) == Url(<< <<"a", "i">> >> \o domain, url.path)

(* inferType(url, document): the document is seen through the content of   *)
(* its meta[property='og:type'] (empty when there is none) and through     *)
(* whether it has a meta[property='article:published_time'].               *)
inferType(url, document) ==
  LET path   == Lower(url.path)
      ogType == Lower(document.ogType)
  IN  IF path = <<"/">> THEN "homepage"
      ELSE IF \/ ogType = <<"p", "r", "o", "d", "u", "c", "t">>
              \/ Contains(path, <<"/", "p", "r", "o", "d", "u", "c", "t">>)
              \/ Contains(path, <<"/", "p", "r", "i", "c", "i", "n", "g">>)
      THEN "product"
      ELSE IF \/ ogType = <<"a", "r", "t", "i", "c", "l", "e">>
              \/ document.published
      THEN "article"
      ELSE IF \/ Contains(path, <<"/", "b", "l", "o", "g">>)
              \/ Contains(path, <<"/", "n", "e", "w", "s">>)
      THEN "article"
      ELSE IF \/ Contains(path, <<"/", "d", "o", "c", "s">>)
              \/ Contains(path, <<"/", "d", "o", "c", "u", "m", "e", "n", "t", "a", "t", "i", "o", "n">>)
              \/ Contains(path, <<"/", "g", "u", "i", "d", "e">>)
      THEN "docs"
      ELSE "category"

(* priorityForType without the "docs" case. *)
priorityForType_DocsDefault(type) ==
  CASE type = "homepage" -> 100
    [] type = "product" -> 80
    [] type = "article" -> 60
    [] OTHER -> 50

(* priorityForType: the priority in hundredths (1.0 is 100, 0.8 is 80). *)
priorityForType(type) ==
  CASE type = "homepage" -> 100
    [] type \in {"product", "docs"} -> 80
    [] type = "article" -> 60
    [] OTHER -> 50

(***************************************************************************)
(* robots.txt.  The file is the sequence of its lines (contents split at   *)
(* line ends), each line a character sequence.                             *)
(***************************************************************************)
defaultRobots == [permissive |-> TRUE, allow |-> <<>>, disallow |-> <<>>]

KeyUserAgent == <<"u", "s", "e", "r", "-", "a", "g", "e", "n", "t">>

KeyDisallow == <<"d", "i", "s", "a", "l", "l", "o", "w">>

KeyAllow == <<"a", "l", "l", "o", "w">>

(* The body of parseRobots' loop for one line; st = [applies, allow, disallow]. *)
ParseRobotsLine(st, raw) ==
  LET line == Trim(raw)
  IN  IF line = <<>> \/ Head(line) = "#"
      THEN st
      ELSE LET fields    == SplitOn(line, ":")
               directive == fields[1]
               value     == IF Len(fields) >= 2 THEN fields[2] ELSE <<>>
               key       == Lower(Trim(directive))
               val       == Trim(value)
           IN  IF key = KeyUserAgent
               THEN [st EXCEPT !.applies = (val = <<"*">>)]
               ELSE IF ~st.applies
               THEN st
               ELSE [st EXCEPT
                       !.disallow = IF key = KeyDisallow /\ val # <<>>
                                    THEN Append(@, val) ELSE @,
                       !.allow    = IF key = KeyAllow /\ val # <<>>
                                    THEN Append(@, val) ELSE @]

RECURSIVE ParseRobotsLines(_, _)
ParseRobotsLines(st, lines) ==
  IF lines = <<>> THEN st
  ELSE ParseRobotsLines(ParseRobotsLine(st, Head(lines)), Tail(lines))

parseRobots(contents) ==
  LET st == ParseRobotsLines([applies |-> FALSE, allow |-> <<>>, disallow |-> <<>>],
                             contents)
  IN  [permissive |-> FALSE, allow |-> st.allow, disallow |-> st.disallow]

(* new RegExp("^" + segments.join(".*")).test(path), the segments being the *)
(* literal pieces of the rule between its "*" characters.                   *)
RECURSIVE RegexMatchAt(_, _, _)
RegexMatchAt(path, i, segs) ==
  IF segs = <<>> THEN TRUE
  ELSE LET s == Head(segs)
       IN  /\ i + Len(s) - 1 <= Len(path)
           /\ SubSeq(path, i, i + Len(s) - 1) = s
           /\ \/ Len(segs) = 1
              \/ \E k \in (i + Len(s))..(Len(path) + 1) :
                    RegexMatchAt(path, k, Tail(segs))

matchesRule(path, rule) ==
  IF rule = <<>> THEN FALSE
  ELSE LET normalizedRule == IF Head(rule) = "/" THEN rule ELSE <<"/">> \o rule
       IN  IF normalizedRule = <<"/">> THEN TRUE
           ELSE IF Includes(normalizedRule, "*")
           THEN RegexMatchAt(path, 1, SplitOn(normalizedRule, "*"))
           ELSE StartsWith(path, normalizedRule)

matchesAny(path, rules) ==
  \E i \in DOMAIN rules : matchesRule(path, rules[i])

(* allows with the Disallow rules consulted before the Allow rules. *)
allows_DisallowFirst(robots, path) ==
  IF robots.permissive THEN TRUE
  ELSE LET normalized == IF path = <<>> THEN <<"/">> ELSE path
       IN  IF matchesAny(normalized, robots.disallow) THEN FALSE
           ELSE TRUE

(* RobotsChecker.allows of the checker a robots value stands for. *)
allows(robots, path) ==
  IF robots.permissive THEN TRUE
  ELSE LET normalized == IF path = <<>> THEN <<"/">> ELSE path
       IN  IF matchesAny(normalized, robots.allow) THEN TRUE
           ELSE IF robots.disallow = <<>> THEN TRUE
           ELSE ~matchesAny(normalized, robots.disallow)

(* loadRobots with the status of the response left unread. *)
loadRobots_IgnoreStatus(resp) ==
  IF ~resp.reached
  THEN [rejected |-> FALSE, value |-> defaultRobots]
  ELSE IF resp.bodyFails
  THEN [rejected |-> TRUE, value |-> defaultRobots]
  ELSE [rejected |-> FALSE, value |-> parseRobots(resp.lines)]

(* loadRobots on the outcome of fetching /robots.txt: reached is FALSE when *)
(* fetch rejects (caught, undefined), bodyFails when response.text()       *)
(* rejects, which makes loadRobots itself reject.                          *)
loadRobots(resp) ==
  IF ~resp.reached \/ ~resp.okStatus
  THEN [rejected |-> FALSE, value |-> defaultRobots]
  ELSE IF resp.bodyFails
  THEN [rejected |-> TRUE, value |-> defaultRobots]
  ELSE [rejected |-> FALSE, value |-> parseRobots(resp.lines)]

(* await loadRobots(root).catch(() => defaultRobots())  (line 309) *)
robotsOrDefault(resp) ==
  LET loaded == loadRobots(resp)
  IN  IF loaded.rejected THEN defaultRobots ELSE loaded.value

(* clamp(Number(payload?.maxDepth ?? 3), 1, MAX_DEPTH); the setting is       *)
(* [given, nan, val]: absent (null/undefined), not a number, or an integer. *)
DEFAULT_DEPTH == 3

depthSetting(maxDepth) ==
  IF maxDepth.given THEN maxDepth ELSE [given |-> TRUE, nan |-> FALSE, val |-> DEFAULT_DEPTH]

Min(a, b) == IF a < b THEN a ELSE b

Max(a, b) == IF a > b THEN a ELSE b

clamp(value, min, max) ==
  IF value.nan THEN min ELSE Min(Max(value.val, min), max)

(***************************************************************************)
(* fetchPage.  A response is what the origin (after redirects) gives:      *)
(* reached (fetch resolved), okStatus (response.ok), html (content-type    *)
(* contains text/html), bodyFails (reading the body rejects), bytes (body  *)
(* length), finalUrl (response.url), canonical (the href of                *)
(* link[rel=canonical], trimmed, when the node exists) and hrefs (the href *)
(* of every a[href], trimmed, in document order).                          *)
(***************************************************************************)
MAX_DOCUMENT_BYTES == 2 * 1024 * 1024

(* extractLinks: empty and "#..." hrefs are filtered out. *)
extractLinks(hrefs) ==
  SelectSeq(hrefs, LAMBDA h : h.kind \notin {"empty", "hash"})

(* outcome "page" carries the FetchResult, "undefined" is the skip value,   *)
(* "throws" is a rejection that fetchPage does not catch.                  *)
fetchPage(resp) ==
  IF ~resp.reached \/ ~resp.okStatus THEN [outcome |-> "undefined"]
  ELSE IF ~resp.html THEN [outcome |-> "undefined"]
  ELSE IF resp.bodyFails THEN [outcome |-> "throws"]
  ELSE IF resp.bytes = 0 \/ resp.bytes > MAX_DOCUMENT_BYTES
  THEN [outcome |-> "undefined"]
  ELSE [outcome |-> "page", finalUrl |-> resp.finalUrl,
        canonical |-> resp.canonical, document |-> resp.document,
        links |-> extractLinks(resp.hrefs)]

(***************************************************************************)
(* sanitizeMarkdown.  A text is a sequence of characters in which NL is    *)
(* the line feed.                                                          *)
(***************************************************************************)
NL == "\n"

(* The regular expression class \s, as far as the texts use it. *)
WhiteSpace == {" ", NL}

UpperChars ==
  {"A", "B", "C", "D", "E", "F", "G", "H", "I", "J", "K", "L", "M",
   "N", "O", "P", "Q", "R", "S", "T", "U", "V", "W", "X", "Y", "Z"}

DigitChars == {"0", "1", "2", "3", "4", "5", "6", "7", "8", "9"}

LowerOrDigitChars == (WordChars \ UpperChars) \ {"_"}

(* The class [a-zA-Z0-9\s&/\\\(\)\-\.\,] of pass 5. *)
TitleChars ==
  (WordChars \ {"_"}) \cup WhiteSpace \cup {"&", "/", "\\", "(", ")", "-", ".", ","}

noisePhrases ==
  << <<"P", "l", "e", "a", "s", "e", " ", "W", "a", "i", "t">>,
     <<"W", "h", "y", " ", "n", "o", "t", " ", "u", "s", "e", " ", "t", "h", "i", "s", " ", "t", "i", "m", "e", " ", "t", "o", " ", "c", "l", "e", "a", "n", " ", "y", "o", "u", "r", " ", "s", "c", "r", "e", "e", "n">>,
     <<"R", "o", "m", "e", " ", "w", "a", "s", "n", "'", "t", " ", "b", "u", "i", "l", "t", " ", "i", "n", " ", "a", " ", "d", "a", "y">>,
     <<"L", "o", "o", "k", " ", "a", "t", " ", "t", "h", "e", " ", "p", "i", "n", "k", " ", "d", "i", "s", "k", " ", "c", "l", "o", "s", "e", "l", "y">>,
     <<"D", "o", "n", "'", "t", " ", "r", "u", "s", "h", " ", "i", "t">>,
     <<"W", "e", "'", "d", " ", "l", "e", "t", " ", "y", "o", "u", " ", "i", "n", " ", "n", "o", "w">>,
     <<"D", "r", "a", "g", " ", "a", "n", "d", " ", "d", "r", "o", "p">> >>

(* The alternatives of the group of pass 4. *)
listItemHeaders ==
  << <<"W", "h", "a", "t", " ", "Y", "o", "u", "'", "l", "l", " ", "D", "o">>,
     <<"R", "e", "q", "u", "i", "r", "e", "m", "e", "n", "t", "s">>,
     <<"B", "e", "n", "e", "f", "i", "t", "s">>,
     <<"L", "o", "c", "a", "t", "i", "o", "n">>,
     <<"K", "e", "y", " ", "R", "e", "s", "p", "o", "n", "s", "i", "b", "i", "l", "i", "t", "y">>,
     <<"W", "h", "a", "t", " ", "Y", "o", "u", "'", "l", "l", " ", "B", "e", " ", "D", "o", "i", "n", "g">>,
     <<"S", "k", "i", "l", "l", "s", " ", "&", " ", "P", "e", "r", "s", "o", "n", "a", "l", " ", "Q", "u", "a", "l", "i", "t", "i", "e", "s">>,
     <<"J", "o", "b", " ", "D", "e", "s", "c", "r", "i", "p", "t", "i", "o", "n">>,
     <<"N", "o", "t", "e", "s">> >>

H3 == <<"#", "#", "#", " ">>

(* How many characters of text, from position i on, lie in set, counted    *)
(* up to max.                                                              *)
RunLengthUpTo(text, i, set, max) ==
  LET last == Min(Len(text), i + max - 1)
  IN  IF \A k \in i..last : text[k] \in set THEN Max(last - i + 1, 0)
      ELSE (CHOOSE k \in i..last :
              text[k] \notin set /\ \A j \in i..(k - 1) : text[j] \in set) - i

RunLength(text, i, set) == RunLengthUpTo(text, i, set, Len(text))

StartsAt(text, i, pat) ==
  /\ i + Len(pat) - 1 <= Len(text)
  /\ SubSeq(text, i, i + Len(pat) - 1) = pat

(* ^ and $ under the m flag. *)
AtLineStart(text, i) == i = 1 \/ text[i - 1] = NL

AtLineEnd(text, k) == k = Len(text) \/ text[k + 1] = NL

NoMatch == [len |-> 0, out |-> <<>>]

(* /-{20,}/ at position i. *)
MatchDashes(text, i) ==
  IF text[i] # "-" THEN NoMatch
  ELSE LET run == RunLength(text, i, {"-"})
       IN  IF run >= 20 THEN [len |-> run, out |-> <<>>] ELSE NoMatch

(* /explore more\s*-/i at position i. *)
MatchExploreMore(text, i) ==
  LET phrase == <<"e", "x", "p", "l", "o", "r", "e", " ", "m", "o", "r", "e">>
  IN  IF ~StartsAt(Lower(SubSeq(text, i, Min(Len(text), i + Len(phrase) - 1))),
                   1, phrase) THEN NoMatch
      ELSE LET gap == RunLength(text, i + Len(phrase), WhiteSpace)
               at  == i + Len(phrase) + gap
           IN  IF at <= Len(text) /\ text[at] = "-"
               THEN [len |-> at - i + 1, out |-> <<>>]
               ELSE NoMatch

(* /^\s*-\s*(\d+\.\s+(?:What You'll Do|...|Notes))/m at position i,         *)
(* replaced by "### $1".                                                   *)
MatchListItemHeader(text, i) ==
  IF ~AtLineStart(text, i) THEN NoMatch
  ELSE LET dash   == i + RunLength(text, i, WhiteSpace)
           number == dash + 1 + RunLength(text, dash + 1, WhiteSpace)
           dot    == number + RunLength(text, number, DigitChars)
           gap    == RunLength(text, dot + 1, WhiteSpace)
           title  == dot + 1 + gap
           found  == {k \in DOMAIN listItemHeaders :
                        StartsAt(text, title, listItemHeaders[k])}
       IN  IF /\ dash <= Len(text) /\ text[dash] = "-"
              /\ dot > number
              /\ dot <= Len(text) /\ text[dot] = "."
              /\ gap >= 1
              /\ found # {}
           THEN LET k    == CHOOSE x \in found : \A y \in found : x <= y
                    last == title + Len(listItemHeaders[k]) - 1
                IN  [len |-> last - i + 1, out |-> H3 \o SubSeq(text, number, last)]
           ELSE NoMatch

(* /^(?![-\d])([A-Z][a-zA-Z0-9\s&/\\\(\)\-\.\,]{4,70})$/m at position i,    *)
(* replaced by "### $1": the longest run of 4 to 70 class characters that  *)
(* ends at a line end (the class holds the line feed).                     *)
MatchTitleLine(text, i) ==
  IF ~(AtLineStart(text, i) /\ text[i] \in UpperChars) THEN NoMatch
  ELSE LET run  == RunLengthUpTo(text, i + 1, TitleChars, 70)
           ends == {n \in 4..run : AtLineEnd(text, i + n)}
       IN  IF ends = {} THEN NoMatch
           ELSE LET n == CHOOSE x \in ends : \A y \in ends : y <= x
                IN  [len |-> n + 1, out |-> H3 \o SubSeq(text, i, i + n)]

(* /([a-z0-9])\n([A-Z])/ at position i, replaced by "$1\n\n$2". *)
MatchLineBreak(text, i) ==
  IF /\ i + 2 <= Len(text)
     /\ text[i] \in LowerOrDigitChars
     /\ text[i + 1] = NL
     /\ text[i + 2] \in UpperChars
  THEN [len |-> 3, out |-> <<text[i], NL, NL, text[i + 2]>>]
  ELSE NoMatch

(* /([.!?])\s*\n\s*([A-Z])/ at position i, replaced by "$1\n\n$2". *)
MatchSentenceBreak(text, i) ==
  IF text[i] \notin {".", "!", "?"} THEN NoMatch
  ELSE LET gap == RunLength(text, i + 1, WhiteSpace)
           at  == i + 1 + gap
       IN  IF /\ at <= Len(text)
              /\ text[at] \in UpperChars
              /\ \E k \in (i + 1)..(at - 1) : text[k] = NL
           THEN [len |-> at - i + 1, out |-> <<text[i], NL, NL, text[at]>>]
           ELSE NoMatch

(* /\n{3,}/ at position i, replaced by "\n\n". *)
MatchBlankLines(text, i) ==
  IF text[i] # NL THEN NoMatch
  ELSE LET run == RunLength(text, i, {NL})
       IN  IF run >= 3 THEN [len |-> run, out |-> <<NL, NL>>] ELSE NoMatch

(* The position of the first c in text at or behind from; 0 when there   *)
(* is none.                                                                *)
FirstOf(text, from, c) ==
  IF \E k \in from..Len(text) : text[k] = c
  THEN CHOOSE k \in from..Len(text) :
         text[k] = c /\ \A j \in from..(k - 1) : text[j] # c
  ELSE 0

(* The character ` (a string of the model cannot hold it). *)
BackTick == "backtick"

StripPasses == {"code fences", "inline code", "links", "marks", "spaces"}

(* The regular expressions of stripMarkdown and of splitSentences at       *)
(* position i.                                                             *)
MatchStripMarkdown(pass, text, i) ==
  CASE pass = "code fences" ->
         (* /```[\s\S]*?```/ -> " " *)
         LET fence  == <<BackTick, BackTick, BackTick>>
             closes == {j \in (i + 3)..Len(text) : StartsAt(text, j, fence)}
         IN  IF StartsAt(text, i, fence) /\ closes # {}
             THEN [len |-> (CHOOSE j \in closes : \A x \in closes : j <= x) + 3 - i,
                   out |-> <<" ">>]
             ELSE NoMatch
    [] pass = "inline code" ->
         (* /`([^`]+)`/ -> "$1" *)
         LET close == FirstOf(text, i + 1, BackTick)
         IN  IF text[i] = BackTick /\ close >= i + 2
             THEN [len |-> close - i + 1, out |-> SubSeq(text, i + 1, close - 1)]
             ELSE NoMatch
    [] pass = "links" ->
         (* /\[([^\]]+)\]\([^\)]+\)/ -> "$1" *)
         LET label == FirstOf(text, i + 1, "]")
             close == FirstOf(text, label + 2, ")")
         IN  IF /\ text[i] = "["
                /\ label >= i + 2
                /\ label + 1 <= Len(text) /\ text[label + 1] = "("
                /\ close >= label + 3
             THEN [len |-> close - i + 1, out |-> SubSeq(text, i + 1, label - 1)]
             ELSE NoMatch
    [] pass = "marks" ->
         (* /[*_~#>-]/ -> " " *)
         IF text[i] \in {"*", "_", "~", "#", ">", "-"}
         THEN [len |-> 1, out |-> <<" ">>]
         ELSE NoMatch
    [] pass = "spaces" ->
         (* /\s+/ -> " " *)
         IF text[i] \in WhiteSpace
         THEN [len |-> RunLength(text, i, WhiteSpace), out |-> <<" ">>]
         ELSE NoMatch
    [] pass = "sentence ends" ->
         (* /(?<=[.!?])\s+/, the separator of splitSentences *)
         IF i > 1 /\ text[i - 1] \in {".", "!", "?"} /\ text[i] \in WhiteSpace
         THEN [len |-> RunLength(text, i, WhiteSpace), out |-> <<"cut">>]
         ELSE NoMatch

MatchAt(pass, text, i) ==
  CASE pass = "dashes" -> MatchDashes(text, i)
    [] pass = "explore more" -> MatchExploreMore(text, i)
    [] pass = "list item headers" -> MatchListItemHeader(text, i)
    [] pass = "titles" -> MatchTitleLine(text, i)
    [] pass = "line breaks" -> MatchLineBreak(text, i)
    [] pass = "sentence breaks" -> MatchSentenceBreak(text, i)
    [] pass = "blank lines" -> MatchBlankLines(text, i)
    [] pass \in StripPasses \cup {"sentence ends"} -> MatchStripMarkdown(pass, text, i)

(* String.prototype.replace with a regular expression that has the g flag: *)
(* the text is scanned from position i; the first position at which the    *)
(* expression matches is found, the match is replaced and the scan goes on *)
(* behind it.                                                              *)
RECURSIVE ReplaceAll(_, _, _)
ReplaceFrom(pass, text, i, hits) ==
  IF hits = {} THEN SubSeq(text, i, Len(text))
  ELSE LET k == CHOOSE x \in hits : \A y \in hits : x <= y
       IN  Bind(LAMBDA m : SubSeq(text, i, k - 1) \o m.out
                           \o Bind(LAMBDA next : ReplaceAll(pass, text, next),
                                   k + m.len),
                MatchAt(pass, text, k))

ReplaceAll(pass, text, i) ==
  Bind(LAMBDA hits : ReplaceFrom(pass, text, i, hits),
       {k \in i..Len(text) : MatchAt(pass, text, k).len > 0})

(* The lines of a text: the pieces between its line feeds. *)
LinesBetween(text, feeds) ==
  LET n      == Cardinality(feeds)
      Cut(j) == IF j = 0 THEN 0
                ELSE IF j = n + 1 THEN Len(text) + 1
                ELSE CHOOSE k \in feeds : Cardinality({x \in feeds : x < k}) = j - 1
  IN  [j \in 1..(n + 1) |-> SubSeq(text, Cut(j - 1) + 1, Cut(j) - 1)]

Lines(text) ==
  Bind(LAMBDA feeds : LinesBetween(text, feeds), {k \in DOMAIN text : text[k] = NL})

(* clean.replace(new RegExp(`.*${phrase}.*`, 'i'), ''): the regular        *)
(* expression has no g flag, so the first line that holds the phrase (in   *)
(* any letter case) is emptied and the other lines are left alone.         *)
EmptyFirstHit(text, lines, hits) ==
  IF hits = {} THEN text
  ELSE LET first == CHOOSE x \in hits : \A y \in hits : x <= y
       IN  Bind(LAMBDA kept : JoinWith(kept, NL), [lines EXCEPT ![first] = <<>>])

removeNoisePhrase(text, phrase) ==
  Bind(LAMBDA lines :
         Bind(LAMBDA hits : EmptyFirstHit(text, lines, hits),
              {k \in DOMAIN lines : Contains(Lower(lines[k]), Lower(phrase))}),
       Lines(text))

(* noisePhrases.forEach(...), from the k-th phrase on. *)
RECURSIVE removeNoise(_, _)
removeNoise(text, k) ==
  IF k > Len(noisePhrases) THEN text
  ELSE Bind(LAMBDA rest : removeNoise(rest, k + 1),
            removeNoisePhrase(text, noisePhrases[k]))

(* String.prototype.trim *)
TrimSpace(text) ==
  IF \A k \in DOMAIN text : text[k] \in WhiteSpace THEN <<>>
  ELSE SubSeq(text,
              CHOOSE x \in DOMAIN text :
                text[x] \notin WhiteSpace /\ \A y \in 1..(x - 1) : text[y] \in WhiteSpace,
              CHOOSE x \in DOMAIN text :
                text[x] \notin WhiteSpace
                /\ \A y \in (x + 1)..Len(text) : text[y] \in WhiteSpace)

sanitizeMarkdown(text) ==
  LET pass1(clean)  == removeNoise(clean, 1)
      pass2(clean)  == ReplaceAll("dashes", clean, 1)
      pass3(clean)  == ReplaceAll("explore more", clean, 1)
      pass4(clean)  == ReplaceAll("list item headers", clean, 1)
      pass5(clean)  == ReplaceAll("titles", clean, 1)
      pass6a(clean) == ReplaceAll("line breaks", clean, 1)
      pass6b(clean) == ReplaceAll("sentence breaks", clean, 1)
      pass7(clean)  == ReplaceAll("blank lines", clean, 1)
  IN  Bind(TrimSpace,
        Bind(pass7,
          Bind(pass6b,
            Bind(pass6a,
              Bind(pass5,
                Bind(pass4,
                  Bind(pass3,
                    Bind(pass2,
                      Bind(pass1, text)))))))))

(* Passes 1, 2, 3 and 7 of sanitizeMarkdown, in this order. *)
noisePasses(text) ==
  LET pass1(clean) == removeNoise(clean, 1)
      pass2(clean) == ReplaceAll("dashes", clean, 1)
      pass3(clean) == ReplaceAll("explore more", clean, 1)
      pass7(clean) == ReplaceAll("blank lines", clean, 1)
  IN  Bind(pass7, Bind(pass3, Bind(pass2, Bind(pass1, text))))

(***************************************************************************)
(* The structure analyzer.  A markdown text is seen through what           *)
(* extractSections and calculateMetrics return for it and through three    *)
(* tests made on the text itself: whether a paragraph has more than 200    *)
(* words, whether the text holds "```", whether it holds a UI noise phrase.*)
(***************************************************************************)
Warning(severity, message, section) ==
  [severity |-> severity, message |-> message, section |-> section]

(* Array.prototype.filter on a sequence of warnings, by severity. *)
CountSeverity(warnings, severity) ==
  Cardinality({k \in DOMAIN warnings : warnings[k].severity = severity})

(* The pushes of a function in order: cond[k] tells whether items[k] is pushed. *)
Pushed(items, cond) ==
  LET Take(k) == IF cond[k] THEN <<items[k]>> ELSE <<>>
  IN  Take(1) \o Take(2) \o Take(3) \o Take(4) \o Take(5) \o Take(6) \o Take(7)

validateStructure(markdown, sections, metrics) ==
  Pushed(
    << Warning("error", "Missing main title (H1 heading)", "Title"),
       Warning("error", "Insufficient content - AI needs more context", "Content"),
       Warning("warning", "Missing source URL - AI can't verify origin", "URL"),
       Warning("info", "Consider adding metadata (author, date, language) for better AI context", "Metadata"),
       Warning("warning", "Low word count - may not provide enough information for AI", "Content"),
       Warning("warning", "No headings found - structure helps AI understand hierarchy", "Structure"),
       Warning("info", "Some paragraphs are very long - consider breaking them up for better AI parsing", "Content") >>,
    << ~sections.hasTitle,
       ~sections.hasContent /\ metrics.paragraphCount < 3,
       ~sections.hasUrl /\ ~sections.hasFrontmatter,
       ~sections.hasMetadata,
       metrics.wordCount < 50,
       metrics.headingCount = 0,
       markdown.longParagraph >>)

Points(cond, n) == IF cond THEN n ELSE 0

(* calculateHealthScore without Math.max(0, ...) around the penalty term. *)
calculateHealthScore_NoFloor(sections, metrics, warnings) ==
  LET errors       == CountSeverity(warnings, "error")
      warningCount == CountSeverity(warnings, "warning")
      score == Points(sections.hasTitle, 10) + Points(sections.hasFrontmatter, 10)
               + Points(sections.hasUrl, 10) + Points(sections.hasContent, 5)
               + Points(sections.hasMetadata, 5)
               + Points(metrics.wordCount > 100, 10) + Points(metrics.wordCount > 300, 5)
               + Points(metrics.headingCount > 0, 10) + Points(metrics.headingCount > 3, 5)
               + Points(metrics.paragraphCount > 2, 5) + Points(metrics.listCount > 0, 5)
               + (20 - (errors * 10) - (warningCount * 3))
  IN  [score |-> score,
       grade |-> IF score >= 85 THEN "Excellent" ELSE IF score >= 70 THEN "Good"
                 ELSE IF score >= 50 THEN "Fair" ELSE "Poor",
       color |-> IF score >= 85 THEN "emerald" ELSE IF score >= 70 THEN "blue"
                 ELSE IF score >= 50 THEN "amber" ELSE "red"]

(* calculateHealthScore with every entry that is not an error counted as a *)
(* warning.                                                                *)
calculateHealthScore_CountInfo(sections, metrics, warnings) ==
  LET errors       == CountSeverity(warnings, "error")
      warningCount == Len(warnings) - errors
      score == Points(sections.hasTitle, 10) + Points(sections.hasFrontmatter, 10)
               + Points(sections.hasUrl, 10) + Points(sections.hasContent, 5)
               + Points(sections.hasMetadata, 5)
               + Points(metrics.wordCount > 100, 10) + Points(metrics.wordCount > 300, 5)
               + Points(metrics.headingCount > 0, 10) + Points(metrics.headingCount > 3, 5)
               + Points(metrics.paragraphCount > 2, 5) + Points(metrics.listCount > 0, 5)
               + Max(0, 20 - (errors * 10) - (warningCount * 3))
  IN  [score |-> score,
       grade |-> IF score >= 85 THEN "Excellent" ELSE IF score >= 70 THEN "Good"
                 ELSE IF score >= 50 THEN "Fair" ELSE "Poor",
       color |-> IF score >= 85 THEN "emerald" ELSE IF score >= 70 THEN "blue"
                 ELSE IF score >= 50 THEN "amber" ELSE "red"]

calculateHealthScore(sections, metrics, warnings) ==
  LET errors       == CountSeverity(warnings, "error")
      warningCount == CountSeverity(warnings, "warning")
      score == Points(sections.hasTitle, 10) + Points(sections.hasFrontmatter, 10)
               + Points(sections.hasUrl, 10) + Points(sections.hasContent, 5)
               + Points(sections.hasMetadata, 5)
               + Points(metrics.wordCount > 100, 10) + Points(metrics.wordCount > 300, 5)
               + Points(metrics.headingCount > 0, 10) + Points(metrics.headingCount > 3, 5)
               + Points(metrics.paragraphCount > 2, 5) + Points(metrics.listCount > 0, 5)
               + Max(0, 20 - (errors * 10) - (warningCount * 3))
  IN  [score |-> score,
       grade |-> IF score >= 85 THEN "Excellent" ELSE IF score >= 70 THEN "Good"
                 ELSE IF score >= 50 THEN "Fair" ELSE "Poor",
       color |-> IF score >= 85 THEN "emerald" ELSE IF score >= 70 THEN "blue"
                 ELSE IF score >= 50 THEN "amber" ELSE "red"]

analyzeAIReadability(markdown, sections, metrics) ==
  LET score == 100 - Points(~sections.hasFrontmatter, 10)
                   - Points(metrics.headingCount = 0, 15)
                   - Points(metrics.wordCount < 100, 10)
                   - Points(markdown.uiNoise, 5)
  IN  [score |-> Max(0, Min(100, score)),
       issues |-> Pushed(
         << "Missing frontmatter - AI prefers structured metadata",
            "No headings - AI can't understand content hierarchy",
            "Content too short - AI needs more context",
            "Contains UI noise that should be removed", "", "", "" >>,
         << ~sections.hasFrontmatter, metrics.headingCount = 0,
            metrics.wordCount < 100, markdown.uiNoise, FALSE, FALSE, FALSE >>),
       strengths |-> Pushed(
         << "Has frontmatter with structured metadata",
            "Good heading structure for hierarchical understanding",
            "Contains lists for structured information",
            "Sufficient content length for context",
            "Properly formatted code blocks",
            "Contains properly formatted links", "" >>,
         << sections.hasFrontmatter, metrics.headingCount >= 3,
            metrics.listCount > 0, metrics.wordCount >= 100,
            markdown.fence, metrics.linkCount > 0, FALSE >>)]

(* The analysis of the empty string. *)
EmptyMarkdown ==
  [sections |-> [hasTitle |-> FALSE, hasUrl |-> FALSE, hasContent |-> FALSE,
                 hasMetadata |-> FALSE, hasFrontmatter |-> FALSE],
   metrics |-> [wordCount |-> 0, paragraphCount |-> 0, headingCount |-> 0,
                listCount |-> 0, codeBlockCount |-> 0, linkCount |-> 0],
   markdown |-> [longParagraph |-> FALSE, fence |-> FALSE, uiNoise |-> FALSE]]

NoHealth == [score |-> 0, grade |-> "Poor", color |-> "red"]

NoReadability == [score |-> 0, issues |-> <<>>, strengths |-> <<>>]

(***************************************************************************)
(* The single-page extraction endpoint (POST /api/extract) and the         *)
(* extractStructuredContent it calls.                                      *)
(***************************************************************************)
(* The byte ceiling of the extraction library. *)
MAX_DOCUMENT_BYTES_EXTRACTION == 3 * 1024 * 1024

NoExtractAnswer ==
  [reached |-> FALSE, code |-> 0, html |-> FALSE, bodyFails |-> FALSE, bytes |-> 0]

(* Whether fetch(url) can build a request: the string has to be an         *)
(* absolute http(s) URL; otherwise fetch rejects with a TypeError.         *)
FetchAccepts(input) == input.kind = "abs" /\ ParseTarget(input, NoBase).ok

(* extractStructuredContent(url) on the answer of the origin: "throws" is  *)
(* an ExtractionError with a status, "rejects" any other error.            *)
extractStructuredContent(url, resp) ==
  IF ~FetchAccepts(url) \/ ~resp.reached
  THEN [outcome |-> "throws", status |-> 502, message |-> "Unable to fetch URL."]
  ELSE IF ~(200 <= resp.code /\ resp.code <= 299)
  THEN [outcome |-> "throws", status |-> 502, message |-> "Upstream error"]
  ELSE IF resp.bodyFails
  THEN [outcome |-> "rejects", status |-> 0, message |-> "TypeError"]
  ELSE [outcome |-> "content", status |-> 0, message |-> ""]

(* error instanceof ExtractionError ? error.status : 502 *)
CatchStatus(result) ==
  IF result.outcome = "throws" THEN result.status ELSE 502

(***************************************************************************)
(* formatAsMdf of the extraction library.  An ExtractionResult holds its   *)
(* texts as character sequences; an absent metadata field is the empty     *)
(* text (?? "").                                                           *)
(***************************************************************************)
(* url.toString() as text. *)
UrlText(u) ==
  u.scheme \o <<":", "/", "/">> \o JoinWith(u.host, ".") \o u.path
  \o (IF u.query = <<>> THEN <<>> ELSE <<"?">> \o u.query)
  \o (IF u.frag = <<>> THEN <<>> ELSE <<"#">> \o u.frag)

(* Array.prototype.join(", ") *)
RECURSIVE JoinText(_, _)
JoinText(parts, sep) ==
  IF parts = <<>> THEN <<>>
  ELSE IF Len(parts) = 1 THEN parts[1]
  ELSE parts[1] \o sep \o JoinText(Tail(parts), sep)

formatAsMdf(result) ==
  LET lines ==
        << <<"#", " ">> \o result.title,
           <<>>,
           <<"#", "#", " ", "U", "R", "L">>,
           result.url,
           <<>>,
           <<"#", "#", " ", "C", "a", "n", "o", "n", "i", "c", "a", "l">>,
           result.canonical,
           <<>>,
           <<"#", "#", " ", "C", "o", "n", "t", "e", "n", "t">>,
           result.markdown,
           <<>>,
           <<"#", "#", " ", "M", "e", "t", "a", "d", "a", "t", "a">>,
           <<"-", " ", "A", "u", "t", "h", "o", "r", ":", " ">> \o result.metadata.author,
           <<"-", " ", "P", "u", "b", "l", "i", "s", "h", "e", "d", " ", "D", "a", "t", "e", ":", " ">> \o result.metadata.published,
           <<"-", " ", "U", "p", "d", "a", "t", "e", "d", " ", "D", "a", "t", "e", ":", " ">> \o result.metadata.updated,
           <<"-", " ", "L", "a", "n", "g", "u", "a", "g", "e", ":", " ">> \o result.metadata.language,
           <<>>,
           <<"#", "#", " ", "S", "c", "h", "e", "m", "a", " ", "H", "i", "n", "t", "s">>,
           <<"-", " ", "C", "o", "n", "t", "e", "n", "t", " ", "T", "y", "p", "e", ":", " ">> \o result.metadata.contentType,
           <<"-", " ", "P", "r", "i", "m", "a", "r", "y", " ", "T", "o", "p", "i", "c", "s", ":", " ">> \o JoinText(result.metadata.primaryTopics, <<",", " ">>),
           <<"-", " ", "E", "n", "t", "i", "t", "i", "e", "s", " ", "M", "e", "n", "t", "i", "o", "n", "e", "d", ":", " ">> \o JoinText(result.metadata.entities, <<",", " ">>) >>
      collapsed(text) == ReplaceAll("blank lines", text, 1)
  IN  Bind(TrimSpace, Bind(collapsed, Bind(LAMBDA all : JoinWith(all, NL), lines)))
      \o <<NL>>

(***************************************************************************)
(* The extraction library behind the AI-mirror JSON endpoint.  An answer   *)
(* of the origin is [fetch, finalUrl, canonical]: fetch as for the extract *)
(* route, response.url when a redirect was followed, and the href of the   *)
(* canonical link of the document.                                         *)
(***************************************************************************)
NoRedirect == [present |-> FALSE, value |-> [kind |-> "empty"]]

NoAiAnswer ==
  [fetch |-> NoExtractAnswer, finalUrl |-> NoRedirect, canonical |-> NoRedirect]

(* fetchHtml(targetUrl): "throws" is an ExtractionError with its status,   *)
(* "rejects" any other error, "html" carries finalUrl.                     *)
fetchHtml(targetUrl, resp) ==
  IF ~resp.fetch.reached
  THEN [outcome |-> "throws", status |-> 502]
  ELSE IF ~(200 <= resp.fetch.code /\ resp.fetch.code <= 299)
  THEN [outcome |-> "throws", status |-> IF resp.fetch.code >= 500 THEN 502 ELSE 400]
  ELSE IF ~resp.fetch.html
  THEN [outcome |-> "throws", status |-> 400]
  ELSE IF resp.fetch.bodyFails
  THEN [outcome |-> "rejects", status |-> 0]
  ELSE IF resp.fetch.bytes = 0 \/ resp.fetch.bytes > MAX_DOCUMENT_BYTES_EXTRACTION
  THEN [outcome |-> "throws", status |-> 400]
  ELSE [outcome |-> "html", status |-> 0,
        finalUrl |-> IF resp.finalUrl.present
                     THEN ParseTarget(resp.finalUrl.value, NoBase).url
                     ELSE targetUrl]

(* collectCanonical of the library: the href is resolved against the URL   *)
(* of the document and loses its fragment; absent when there is no href    *)
(* or it does not parse.                                                   *)
collectCanonicalExtraction(href, documentUrl) ==
  IF ~href.present \/ href.value.kind = "empty"
  THEN [present |-> FALSE]
  ELSE LET parsed == ParseTarget(href.value, WithBase(documentUrl))
       IN  IF parsed.ok
           THEN [present |-> TRUE, url |-> [parsed.url EXCEPT !.frag = <<>>]]
           ELSE [present |-> FALSE]

(* extractStructuredContent(inputUrl) of the library: url and canonical    *)
(* of the result are the texts of URLs.                                    *)
extractStructuredContentExtraction(inputUrl, resp) ==
  LET normalizedUrl == normalizeUrlExtraction(inputUrl)
  IN  IF ~normalizedUrl.ok
      THEN [outcome |-> "throws", status |-> 400]
      ELSE LET fetched == fetchHtml(normalizedUrl.url, resp)
           IN  IF fetched.outcome # "html"
               THEN fetched
               ELSE LET canonical == collectCanonicalExtraction(resp.canonical,
                                                                fetched.finalUrl)
                    IN  [outcome |-> "result", status |-> 0,
                         url |-> UrlText(fetched.finalUrl),
                         canonical |-> IF canonical.present
                                       THEN UrlText(canonical.url)
                                       ELSE UrlText(fetched.finalUrl)]

(* payload.url.trim() as text. *)
InputText(input) ==
  CASE input.kind = "abs" -> UrlText(input)
    [] input.kind = "noscheme" -> NoSchemeText(input)
    [] input.kind = "rel" -> input.path
    [] input.kind = "bad" -> HTTP \o <<":", "/", "/">>
    [] OTHER -> <<>>

(* collection.findOne({ source_url: sourceUrl }): the first stored         *)
(* document with this source_url, or null.                                 *)
getAIMirrorByUrl(store, sourceUrl) ==
  LET hits == SelectSeq(store, LAMBDA d : d.source_url = sourceUrl)
  IN  IF hits = <<>> THEN [found |-> FALSE] ELSE [found |-> TRUE, doc |-> hits[1]]

(* saveAIMirrorData: collection.insertOne(document). *)
saveAIMirrorData(store, data) == Append(store, data)

NoMetadata ==
  [author |-> <<>>, published |-> <<>>, updated |-> <<>>, language |-> <<>>,
   contentType |-> <<>>, primaryTopics |-> <<>>, entities |-> <<>>]

NoResult ==
  [title |-> <<>>, url |-> <<>>, canonical |-> <<>>, markdown |-> <<>>,
   metadata |-> NoMetadata]

(* buildMirrorUrl(url): `https://ai.${host}${pathname}${search}` with the  *)
(* host of new URL(url) after replace(/^www\./i, ""); the empty string     *)
(* when new URL(url) throws.                                               *)
buildMirrorUrl(url) ==
  IF url.kind # "abs" THEN [kind |-> "empty", scheme |-> <<>>, host |-> <<>>,
                            path |-> <<>>, query |-> <<>>, frag |-> <<>>]
  ELSE LET parsed == ParseTarget(url, NoBase).url
           host   == IF Len(parsed.host) > 1 /\ Lower(parsed.host[1]) = <<"w", "w", "w">>
                     THEN Tail(parsed.host) ELSE parsed.host
       IN  [kind |-> "abs", scheme |-> HTTPS, host |-> << <<"a", "i">> >> \o host,
            path |-> parsed.path, query |-> parsed.query, frag |-> <<>>]

(***************************************************************************)
(* The structured content of the AI-mirror JSON endpoint.                  *)
(***************************************************************************)
stripMarkdown(source) ==
  LET fences(text) == ReplaceAll("code fences", text, 1)
      code(text)   == ReplaceAll("inline code", text, 1)
      links(text)  == ReplaceAll("links", text, 1)
      marks(text)  == ReplaceAll("marks", text, 1)
      spaces(text) == ReplaceAll("spaces", text, 1)
  IN  Bind(TrimSpace,
        Bind(spaces, Bind(marks, Bind(links, Bind(code, Bind(fences, source))))))

(* text.split(/(?<=[.!?])\s+/).map(trim).filter(Boolean): every separator  *)
(* is marked by the single element "cut", which is no character.           *)
TrimmedPieces(pieces) ==
  SelectSeq([k \in DOMAIN pieces |-> TrimSpace(pieces[k])], LAMBDA piece : piece # <<>>)

splitSentences(text) ==
  Bind(TrimmedPieces,
    Bind(LAMBDA marked : LinesBetween(marked, {k \in DOMAIN marked : marked[k] = "cut"}),
      ReplaceAll("sentence ends", text, 1)))

(* sentences.slice(0, n) *)
Slice(items, n) == SubSeq(items, 1, Min(n, Len(items)))

(* The callback of sections.map for a trimmed, non-empty block: lines is   *)
(* trimmed.split(/\n+/).  entry.kept is FALSE where the callback returns   *)
(* undefined.                                                              *)
SectionEntry(lines, first) ==
  LET hashes == RunLength(lines[1], 1, {"#"})
      bare   == IF hashes = 0 THEN lines[1]
                ELSE SubSeq(lines[1],
                            hashes + 1 + RunLength(lines[1], hashes + 1, WhiteSpace),
                            Len(lines[1]))
      title  == IF TrimSpace(bare) # <<>> THEN TrimSpace(bare)
                ELSE IF first THEN <<"O", "v", "e", "r", "v", "i", "e", "w">> ELSE <<"S", "e", "c", "t", "i", "o", "n">>
      facts  == Slice(splitSentences(stripMarkdown(JoinWith(Tail(lines), " "))), 5)
  IN  [kept |-> facts # <<>>, section |-> title, facts |-> facts]

SectionOf(block, first) ==
  Bind(LAMBDA trimmed :
         IF trimmed = <<>> THEN [kept |-> FALSE, section |-> <<>>, facts |-> <<>>]
         ELSE Bind(LAMBDA lines : SectionEntry(lines, first),
                   SelectSeq(Lines(trimmed), LAMBDA line : line # <<>>)),
       TrimSpace(block))

StructuredOrFallback(entries, fallbackSentences) ==
  LET structured == SelectSeq(entries, LAMBDA entry : entry.kept)
  IN  IF structured # <<>>
      THEN [k \in DOMAIN structured |->
              [section |-> structured[k].section, facts |-> structured[k].facts]]
      ELSE << [section |-> <<"O", "v", "e", "r", "v", "i", "e", "w">>, facts |-> Slice(fallbackSentences, 5)] >>

buildStructuredContent(markdown, fallbackSentences) ==
  LET cuts == {k \in DOMAIN markdown :
                 /\ markdown[k] = NL
                 /\ k + 3 <= Len(markdown)
                 /\ markdown[k + 1] = "#" /\ markdown[k + 2] = "#"
                 /\ markdown[k + 3] \in WhiteSpace}
  IN  Bind(LAMBDA entries : StructuredOrFallback(entries, fallbackSentences),
        Bind(LAMBDA sections :
               [k \in DOMAIN sections |-> SectionOf(sections[k], k = 1)],
             LinesBetween(markdown, cuts)))

(***************************************************************************)
(* The crawl of one POST request.                                          *)
(***************************************************************************)
VARIABLES
  pc,         \* "idle", "request", "robots", "loop", "fetch", "done", "failed"
  payload,    \* the request body: [url, maxDepth]
  site,       \* which origin answers the fetches
  root,       \* normalizeUrl(inputUrl): [ok, url]
  depthLimit,
  robots,
  robotsResp, \* history: the answer /robots.txt was given
  queue,      \* sequence of QueueItem [url, depth]
  visited,    \* set of normalized URLs
  recorded,   \* set of canonical URLs
  pages,      \* sequence of PageEntry
  current,    \* the item whose fetch is awaited
  status,     \* HTTP status of the answer, 0 while none
  fetchLog,   \* history: every call of fetchPage, [url, depth]
  docs,       \* history: every document that reached the record step
  enqLog,     \* history: every queue.push, [url, depth, parent]
  outcomeLog, \* history: what became of each fetch, in the order of fetchLog
  created,    \* history: every QueueItem, in the order of creation
  dequeued,   \* history: every item queue.shift() returned, in this order
  answer,     \* history: the answer the last fetch of the crawl was given
  rbPc, rbLines, rbPath, rbChecker, rbAnswer,  \* robots evaluator on its own
  nzPc, nzMode, nzInput, nzBase, nzOnce, nzTwice, \* URL normalizers on their own
  szPc, szText, szOnce, szAgain,                  \* sanitizeMarkdown on its own
  anPc, anInput, anWarnings, anHealth, anReadability, \* structure analyzer on its own
  exPc, exUrl, exResp, exStatus, exBody,          \* POST /api/extract
  mdPc, mdResult, mdOut,                          \* formatAsMdf on its own
  scPc, scMarkdown, scSentences, scStructured,    \* buildStructuredContent on its own
  mrPc, mrCanonicals, mrUrls,                     \* buildMirrorUrl on its own
  ccSite, ccRobots, crawls, ccMixed,              \* two crawl requests at a time
  ajPc, ajPayload, ajStore, ajAnswer, ajResult, ajStatus, ajCached, ajLog\* POSTs of the AI-mirror JSON endpoint

crawlVars ==
  <<pc, payload, site, root, depthLimit, robots, robotsResp, queue, visited,
    recorded, pages, current, status, fetchLog, docs, enqLog, outcomeLog,
    created, dequeued, answer>>

robotsVars == <<rbPc, rbLines, rbPath, rbChecker, rbAnswer>>

normalizeVars == <<nzPc, nzMode, nzInput, nzBase, nzOnce, nzTwice>>

sanitizeVars == <<szPc, szText, szOnce, szAgain>>

analyzeVars == <<anPc, anInput, anWarnings, anHealth, anReadability>>

extractVars == <<exPc, exUrl, exResp, exStatus, exBody>>

mdfVars == <<mdPc, mdResult, mdOut>>

structureVars == <<scPc, scMarkdown, scSentences, scStructured>>

mirrorVars == <<mrPc, mrCanonicals, mrUrls>>

concurrentVars == <<ccSite, ccRobots, crawls, ccMixed>>

aiMirrorVars ==
  <<ajPc, ajPayload, ajStore, ajAnswer, ajResult, ajStatus, ajCached, ajLog>>

unitVars ==
  <<normalizeVars, sanitizeVars, analyzeVars, extractVars, mdfVars,
    structureVars, mirrorVars, concurrentVars, aiMirrorVars>>

vars == <<crawlVars, robotsVars, unitVars>>

NoItem == [url |-> Url(<<>>, <<>>), depth |-> 0]

(* LinkPasses without the visited test. *)
LinkPasses_NoVisitedCheck(rootUrl, rb, seen, normalizedLink) ==
  /\ isSameHost(rootUrl, normalizedLink)
  /\ ~isBlockedPath(normalizedLink)
  /\ allows(rb, normalizedLink.path)

(* The filters of one candidate link (lines 368-379). *)
LinkPasses(rootUrl, rb, seen, normalizedLink) ==
  /\ isSameHost(rootUrl, normalizedLink)
  /\ ~isBlockedPath(normalizedLink)
  /\ allows(rb, normalizedLink.path)
  /\ normalizedLink \notin seen

(* EnqueueLinks that puts the new items at the head of the queue. *)
EnqueueLinks_Front(q, links, canonical, depth, rootUrl, rb, seen) ==
  LET normalized == [i \in DOMAIN links |-> normalizeUrl(links[i], WithBase(canonical))]
      pushed     == SelectSeq(normalized,
                              LAMBDA n : n.ok /\ LinkPasses(rootUrl, rb, seen, n.url))
  IN  [i \in DOMAIN pushed |-> [url |-> pushed[i].url, depth |-> depth + 1]] \o q

(* The for loop over page.links (lines 364-384): hrefs that fail to         *)
(* normalize are skipped, the others are filtered and pushed in order.     *)
(* visited does not change inside the loop, so each href is judged alone.  *)
EnqueueLinks(q, links, canonical, depth, rootUrl, rb, seen) ==
  LET normalized == [i \in DOMAIN links |-> normalizeUrl(links[i], WithBase(canonical))]
      pushed     == SelectSeq(normalized,
                              LAMBDA n : n.ok /\ LinkPasses(rootUrl, rb, seen, n.url))
  IN  q \o [i \in DOMAIN pushed |-> [url |-> pushed[i].url, depth |-> depth + 1]]

(* MayDiscover with <= in place of <. *)
MayDiscover_Inclusive(depth, limit) == depth <= limit

(* Whether link discovery runs for an item of this depth (line 363). *)
MayDiscover(depth, limit) == depth < limit

(* PassesFilters without the blocked-path test. *)
PassesFilters_NoBlockedCheck(rootUrl, rb, url) ==
  /\ isSameHost(rootUrl, url)
  /\ allows(rb, url.path)

(* PassesFilters without the robots test. *)
PassesFilters_NoRobotsCheck(rootUrl, rb, url) ==
  /\ isSameHost(rootUrl, url)
  /\ ~isBlockedPath(url)

(* The dequeue filter chain before the fetch (lines 325-334). *)
PassesFilters(rootUrl, rb, url) ==
  /\ isSameHost(rootUrl, url)
  /\ allows(rb, url.path)
  /\ ~isBlockedPath(url)

(* CanonicalAccepted without the host test. *)
CanonicalAccepted_AnyHost(rootUrl, rb, canonical) ==
  ~(isBlockedPath(canonical) \/ ~allows(rb, canonical.path))

(* CanonicalAccepted without the blocked-path test. *)
CanonicalAccepted_IgnoreBlocked(rootUrl, rb, canonical) ==
  /\ isSameHost(rootUrl, canonical)
  /\ allows(rb, canonical.path)

(* The checks on the canonical of a fetched document (lines 343-350). *)
CanonicalAccepted(rootUrl, rb, canonical) ==
  /\ isSameHost(rootUrl, canonical)
  /\ ~(isBlockedPath(canonical) \/ ~allows(rb, canonical.path))

(* AlreadyVisited with the visited test left out. *)
AlreadyVisited_Never(seen, url) == FALSE

(* if (visited.has(normalizedCurrent)) continue;  (line 320) *)
AlreadyVisited(seen, url) == url \in seen

(* NeedsRecord with the recorded test left out. *)
NeedsRecord_Always(known, canonicalUrl) == TRUE

(* if (!recorded.has(canonicalUrl))  (line 352) *)
NeedsRecord(known, canonicalUrl) == canonicalUrl \notin known

(* LoopContinues without the page budget. *)
LoopContinues_NoBudget(q, ps) == q # <<>>

(* while (queue.length && pages.length < MAX_PAGES) *)
LoopContinues(q, ps) == q # <<>> /\ Len(ps) < MAX_PAGES

(* queue.shift() that leaves the item in the queue. *)
Shift_Keep(q) == q

(* The queue after queue.shift() (line 317). *)
Shift(q) == Tail(q)

(* pages.push that keeps the list sorted by falling priority. *)
Push_ByPriority(list, entry) ==
  LET before == SelectSeq(list, LAMBDA e : e.priority >= entry.priority)
      after  == SelectSeq(list, LAMBDA e : e.priority < entry.priority)
  IN  before \o <<entry>> \o after

(* pages.push(entry) (line 354) *)
Push(list, entry) == Append(list, entry)

(* visited of invocation i with one Set shared by all invocations. *)
Visited_Shared(all, i) == all[1].visited

(* const visited = new Set<string>() inside POST (line 312): each          *)
(* invocation reads and writes its own set.                                *)
Visited(all, i) == all[i].visited

(* Lines 353-359: the entry pushed for a canonical URL. *)
PageEntry(canonical, rootUrl, document) ==
  LET pageType == inferType(canonical, document)
  IN  [url |-> canonical,
       ai_url |-> buildAiUrl(canonical, hostKey(rootUrl.host)),
       type |-> pageType,
       priority |-> priorityForType(pageType)]

(* Lines 289-309: read the payload, normalize the root, ask for robots.txt. *)
Request ==
  /\ pc = "request"
  /\ LET inputUrl       == payload.url
         normalizedRoot == normalizeUrl(inputUrl, NoBase)
     IN  IF inputUrl.kind = "empty"
         THEN /\ pc' = "failed"
              /\ status' = 400
              /\ UNCHANGED <<root, depthLimit>>
         ELSE IF ~normalizedRoot.ok
         THEN /\ pc' = "failed"
              /\ status' = 400
              /\ UNCHANGED <<root, depthLimit>>
         ELSE /\ root' = [ok |-> TRUE, url |-> normalizedRoot.url]
              /\ depthLimit' = clamp(depthSetting(payload.maxDepth), 1, MAX_DEPTH)
              /\ pc' = "robots"
              /\ UNCHANGED status
  /\ UNCHANGED <<payload, site, robots, robotsResp, queue, visited, recorded,
                 pages, current, fetchLog, docs, enqLog, outcomeLog, created,
                 dequeued, robotsVars,
                 answer, unitVars>>

(***************************************************************************)
(* The environment: request payloads, robots.txt answers and origins.      *)
(***************************************************************************)
Abs(scheme, host, path, query, frag) ==
  [kind |-> "abs", scheme |-> scheme, host |-> host, path |-> path,
   query |-> query, frag |-> frag]

Rel(path) ==
  [kind |-> "rel", scheme |-> <<>>, host |-> <<>>, path |-> path,
   query |-> <<>>, frag |-> <<>>]

NoScheme(host, path) ==
  [kind |-> "noscheme", scheme |-> <<>>, host |-> host, path |-> path,
   query |-> <<>>, frag |-> <<>>]

Shape(kind) ==
  [kind |-> kind, scheme |-> <<>>, host |-> <<>>, path |-> <<>>,
   query |-> <<>>, frag |-> <<>>]

HostS == << <<"s">>, <<"i", "o">> >>

HostWwwS == << <<"w", "w", "w">>, <<"s">>, <<"i", "o">> >>

HostUpper == << <<"W", "w", "W">>, <<"S">>, <<"i", "o">> >>

HostOther == << <<"o">>, <<"i", "o">> >>

PRoot == <<"/">>

PA == <<"/", "a">>

PB == <<"/", "b">>

PC == <<"/", "c">>

PD == <<"/", "d">>

PE == <<"/", "e">>

POld == <<"/", "o", "l", "d">>

PLogin == <<"/", "l", "o", "g", "i", "n">>

PLoginx == <<"/", "l", "o", "g", "i", "n", "x">>

PAdmin == <<"/", "A", "d", "m", "i", "n", "/", "x">>

PScript == <<"/", "a", ".", "j", "s">>

PDocs == <<"/", "D", "o", "c", "s", "/", "x">>

(* The root URLs asked for. *)
RootInputs ==
  { Abs(HTTPS, HostS, PRoot, <<>>, <<>>),
    Abs(<<"H", "T", "T", "P">>, HostUpper, <<>>, <<"q">>, <<"f">>),
    NoScheme(HostS, PLogin),
    Shape("bad"),
    Shape("empty") }

MaxDepthInput == 5

DepthInputs ==
  { [given |-> FALSE, nan |-> FALSE, val |-> 0],
    [given |-> TRUE, nan |-> TRUE, val |-> 0] }
  \cup { [given |-> TRUE, nan |-> FALSE, val |-> v] : v \in (0 - 1)..MaxDepthInput }

UaStar == <<"U", "s", "e", "r", "-", "a", "g", "e", "n", "t", ":", " ", "*">>

DisallowLine(rule) == <<"D", "i", "s", "a", "l", "l", "o", "w", ":", " ">> \o rule

AllowLine(rule) == <<"A", "l", "l", "o", "w", ":", " ">> \o rule

(* The answers to GET /robots.txt. *)
RobotsAnswer(reached, okStatus, bodyFails, lines) ==
  [reached |-> reached, okStatus |-> okStatus, bodyFails |-> bodyFails,
   lines |-> lines]

NoRobotsAnswer == RobotsAnswer(FALSE, FALSE, FALSE, <<>>)

RobotsResponses ==
  { NoRobotsAnswer,
    RobotsAnswer(TRUE, FALSE, FALSE, <<UaStar, DisallowLine(PRoot)>>),
    RobotsAnswer(TRUE, TRUE, TRUE, <<UaStar, DisallowLine(PRoot)>>),
    RobotsAnswer(TRUE, TRUE, FALSE, <<UaStar, DisallowLine(PB)>>),
    RobotsAnswer(TRUE, TRUE, FALSE, <<UaStar, DisallowLine(PRoot), AllowLine(PA)>>) }

Absent == [present |-> FALSE, value |-> Shape("empty")]

Present(input) == [present |-> TRUE, value |-> input]

(* A document without og:type and article:published_time metas. *)
NoMeta == [ogType |-> <<>>, published |-> FALSE]

OgType(t) == [ogType |-> t, published |-> FALSE]

Published == [ogType |-> <<>>, published |-> TRUE]

Ok(finalUrl, canonical, hrefs) ==
  [reached |-> TRUE, okStatus |-> TRUE, html |-> TRUE, bodyFails |-> FALSE,
   bytes |-> 1000, finalUrl |-> finalUrl, canonical |-> canonical,
   document |-> NoMeta, hrefs |-> hrefs]

OkWith(finalUrl, canonical, hrefs, document) ==
  [Ok(finalUrl, canonical, hrefs) EXCEPT !.document = document]

(* The answers that make fetchPage give up on a page. *)
Failures(url) ==
  { [Ok(Href(url), Absent, <<>>) EXCEPT !.reached = FALSE],
    [Ok(Href(url), Absent, <<>>) EXCEPT !.okStatus = FALSE],
    [Ok(Href(url), Absent, <<>>) EXCEPT !.html = FALSE],
    [Ok(Href(url), Absent, <<>>) EXCEPT !.bytes = 0],
    [Ok(Href(url), Absent, <<>>) EXCEPT !.bytes = MAX_DOCUMENT_BYTES + 1] }

(* No fetch of the crawl has been answered yet. *)
NoAnswer == [Ok(Shape("empty"), Absent, <<>>) EXCEPT !.reached = FALSE]

NotFound(url) == [Ok(Href(url), Absent, <<>>) EXCEPT !.okStatus = FALSE]

(* Origin "chain": / -> /a -> /b -> /c -> /d -> /e -> / *)
ChainPage(url) ==
  LET next == CASE url.path = PRoot -> <<Rel(PA)>>
                [] url.path = PA -> <<Rel(PB)>>
                [] url.path = PB -> <<Rel(PC)>>
                [] url.path = PC -> <<Rel(PD)>>
                [] url.path = PD -> <<Rel(PE)>>
                [] OTHER -> <<Rel(PRoot)>>
      meta == CASE url.path = PA -> OgType(<<"P", "r", "o", "d", "u", "c", "t">>)
                [] url.path = PB -> Published
                [] url.path = PC -> OgType(<<"w", "e", "b", "s", "i", "t", "e">>)
                [] OTHER -> NoMeta
  IN  OkWith(Href(url), Absent, next, meta)

(* Origin "mesh": duplicates, redirects, canonicals and unusable links. *)
MeshPage(url) ==
  CASE url.path = PRoot ->
         Ok(Href(url), Present(Abs(HTTPS, HostWwwS, PRoot, <<>>, <<>>)),
            << Rel(PA), Rel(PA \o <<"/">>), Shape("hash"),
               Abs(HTTP, HostUpper, PB, <<"x">>, <<"y">>),
               Rel(PLogin), Rel(PScript), Abs(HTTPS, HostOther, PA, <<>>, <<>>),
               Shape("bad"), Shape("empty"), Rel(PAdmin) >>)
    [] url.path = PA ->
         OkWith(Href(url), Absent,
                << Rel(PB), Rel(PRoot), Rel(POld), Shape("bad"),
                   NoScheme(<< <<"c">> >>, <<>>), Rel(PE), Rel(PDocs) >>,
                Published)
    [] url.path = PB ->
         Ok(Href(url), Present(Abs(HTTPS, HostS, PA, <<>>, <<>>)),
            << Rel(PLoginx), Rel(PD) >>)
    [] url.path = POld ->
         Ok(Abs(HTTP, HostS, PA \o <<"/">>, <<"r">>, <<>>), Absent, <<Rel(PD)>>)
    [] url.path = PLoginx ->
         Ok(Href(url), Present(Abs(HTTPS, HostOther, PLoginx, <<>>, <<>>)), <<Rel(PC)>>)
    [] url.path = PD ->
         Ok(Href(url), Present(Abs(HTTPS, HostS, PLogin, <<>>, <<>>)), <<Rel(PC)>>)
    [] url.path = PE ->
         OkWith(Href(url), Present(Abs(HTTPS, HostS, PB, <<>>, <<>>)), <<>>,
                OgType(<<"p", "r", "o", "d", "u", "c", "t">>))
    [] url.path = PC ->
         Ok(Href(url), Present(Shape("bad")), <<>>)
    [] url.path = PDocs ->
         Ok(Href(url), Absent, <<>>)
    [] OTHER -> NotFound(url)

(* Origin "fan": the home page links to FanOut leaf pages /p1, /p2, ... *)
FanExtra == 5

FanOut == MAX_PAGES + FanExtra

DigitChar(d) ==
  CASE d = 0 -> "0" [] d = 1 -> "1" [] d = 2 -> "2" [] d = 3 -> "3" [] d = 4 -> "4"
    [] d = 5 -> "5" [] d = 6 -> "6" [] d = 7 -> "7" [] d = 8 -> "8" [] OTHER -> "9"

RECURSIVE Digits(_)
Digits(n) ==
  IF n < 10 THEN <<DigitChar(n)>> ELSE Digits(n \div 10) \o <<DigitChar(n % 10)>>

LeafPath(i) == <<"/", "p">> \o Digits(i)

FanPage(url) ==
  IF url.path = PRoot
  THEN Ok(Href(url), Absent, [i \in 1..FanOut |-> Rel(LeafPath(i))])
  ELSE Ok(Href(url), Absent, <<>>)

(* The origins a request is tried against; the large one is crawled with  *)
(* the default depth only.                                                 *)
Sites(request) ==
  IF request.maxDepth.given THEN {"chain", "mesh"} ELSE {"chain", "mesh", "fan"}

(* The answers the origin may give to a fetch of url. *)
Serve(s, url) ==
  CASE s = "chain" -> {ChainPage(url)} \cup Failures(url)
    [] s = "mesh" -> {MeshPage(url)} \cup Failures(url)
                       \cup {[Ok(Href(url), Absent, <<>>) EXCEPT !.bodyFails = TRUE]}
    [] OTHER -> {FanPage(url)}

(* Line 309-314: robots.txt answered (or failed); the crawl state is set up. *)
LoadRobots ==
  /\ pc = "robots"
  /\ \E resp \in RobotsResponses :
       /\ robots' = robotsOrDefault(resp)
       /\ robotsResp' = resp
  /\ queue' = <<[url |-> root.url, depth |-> 0]>>
  /\ created' = queue'
  /\ visited' = {}
  /\ recorded' = {}
  /\ pages' = <<>>
  /\ pc' = "loop"
  /\ UNCHANGED <<payload, site, root, depthLimit, current, status, fetchLog,
                 docs, enqLog, outcomeLog, dequeued, robotsVars,
                 answer, unitVars>>

(* Lines 316-336: one item leaves the queue and is filtered; when it passes, *)
(* fetchPage is called and awaited.                                         *)
Dequeue ==
  /\ pc = "loop"
  /\ LoopContinues(queue, pages)
  /\ LET item              == Head(queue)
         normalizedCurrent == normalizeUrl(Href(item.url), NoBase)
     IN  /\ queue' = Shift(queue)
         /\ dequeued' = Append(dequeued, item)
         /\ IF ~normalizedCurrent.ok
            THEN /\ pc' = "failed"
                 /\ status' = 400
                 /\ UNCHANGED <<visited, current, fetchLog>>
            ELSE IF AlreadyVisited(visited, normalizedCurrent.url)
            THEN UNCHANGED <<pc, status, visited, current, fetchLog>>
            ELSE /\ visited' = visited \cup {normalizedCurrent.url}
                 /\ UNCHANGED status
                 /\ IF PassesFilters(root.url, robots, normalizedCurrent.url)
                    THEN /\ pc' = "fetch"
                         /\ current' = [url |-> normalizedCurrent.url,
                                        depth |-> item.depth]
                         /\ fetchLog' = Append(fetchLog, current')
                    ELSE UNCHANGED <<pc, current, fetchLog>>
  /\ UNCHANGED <<payload, site, root, depthLimit, robots, robotsResp, recorded,
                 pages, docs, enqLog, outcomeLog, created, robotsVars,
                 answer, unitVars>>

(* Lines 336-387: the fetch is answered; the page is recorded and its links *)
(* are queued.                                                              *)
FetchReturn ==
  /\ pc = "fetch"
  /\ \E resp \in Serve(site, current.url) :
       LET page == fetchPage(resp)
       IN  /\ answer' = resp
           /\ IF page.outcome = "throws"
              THEN /\ pc' = "failed"
                   /\ status' = 400
                   /\ outcomeLog' = Append(outcomeLog, "fetch throws")
                   /\ UNCHANGED <<queue, recorded, pages, docs, enqLog, created>>
              ELSE IF page.outcome = "undefined"
              THEN /\ pc' = "loop"
                   /\ outcomeLog' = Append(outcomeLog, "undefined")
                   /\ UNCHANGED <<status, queue, recorded, pages, docs, enqLog,
                                  created>>
              ELSE LET canonicalUrl == normalizeUrl(IF page.canonical.present
                                                    THEN page.canonical.value
                                                    ELSE page.finalUrl, NoBase)
                   IN  IF ~canonicalUrl.ok
                       THEN /\ pc' = "failed"
                            /\ status' = 400
                            /\ outcomeLog' = Append(outcomeLog, "canonical throws")
                            /\ UNCHANGED <<queue, recorded, pages, docs, enqLog,
                                           created>>
                       ELSE IF ~CanonicalAccepted(root.url, robots, canonicalUrl.url)
                       THEN /\ pc' = "loop"
                            /\ outcomeLog' = Append(outcomeLog, "canonical refused")
                            /\ UNCHANGED <<status, queue, recorded, pages, docs,
                                           enqLog, created>>
                       ELSE /\ pc' = "loop"
                            /\ UNCHANGED status
                            /\ IF NeedsRecord(recorded, canonicalUrl.url)
                               THEN /\ pages' = Push(pages,
                                         PageEntry(canonicalUrl.url, root.url,
                                                   page.document))
                                    /\ recorded' = recorded \cup {canonicalUrl.url}
                                    /\ outcomeLog' = Append(outcomeLog, "recorded")
                               ELSE /\ outcomeLog' = Append(outcomeLog, "known canonical")
                                    /\ UNCHANGED <<pages, recorded>>
                            /\ docs' = docs \cup {[from |-> current.url,
                                                   canonical |-> canonicalUrl.url]}
                            /\ queue' = IF MayDiscover(current.depth, depthLimit)
                                        THEN EnqueueLinks(queue, page.links,
                                                          canonicalUrl.url, current.depth,
                                                          root.url, robots, visited)
                                        ELSE queue
                            /\ created' = IF MayDiscover(current.depth, depthLimit)
                                          THEN EnqueueLinks(created, page.links,
                                                            canonicalUrl.url, current.depth,
                                                            root.url, robots, visited)
                                          ELSE created
                            /\ enqLog' = enqLog \cup
                                 { [url |-> queue'[i].url, depth |-> queue'[i].depth,
                                    parent |-> current.depth] :
                                     i \in (Len(queue) + 1)..Len(queue') }
  /\ UNCHANGED <<payload, site, root, depthLimit, robots, robotsResp, visited,
                 current, fetchLog, dequeued, robotsVars, unitVars>>

(* Lines 316, 390-421: the loop condition fails and the result is returned. *)
Finish ==
  /\ pc = "loop"
  /\ ~LoopContinues(queue, pages)
  /\ pc' = "done"
  /\ status' = 200
  /\ UNCHANGED <<payload, site, root, depthLimit, robots, robotsResp, queue,
                 visited, recorded, pages, current, fetchLog, docs, enqLog,
                 outcomeLog, created, dequeued, robotsVars,
                 answer, unitVars>>

NormalizeIdle ==
  /\ nzPc = "idle"
  /\ nzMode = "crawl"
  /\ nzInput = Shape("empty")
  /\ nzBase = NoBase
  /\ nzOnce = [ok |-> FALSE]
  /\ nzTwice = [ok |-> FALSE]

SanitizeIdle ==
  /\ szPc = "idle"
  /\ szText = <<>>
  /\ szOnce = <<>>
  /\ szAgain = <<>>

AnalyzeIdle ==
  /\ anPc = "idle"
  /\ anInput = EmptyMarkdown
  /\ anWarnings = <<>>
  /\ anHealth = NoHealth
  /\ anReadability = NoReadability

ExtractIdle ==
  /\ exPc = "idle"
  /\ exUrl = Shape("empty")
  /\ exResp = NoExtractAnswer
  /\ exStatus = 0
  /\ exBody = ""

MdfIdle ==
  /\ mdPc = "idle"
  /\ mdResult = NoResult
  /\ mdOut = <<>>

StructureIdle ==
  /\ scPc = "idle"
  /\ scMarkdown = <<>>
  /\ scSentences = <<>>
  /\ scStructured = <<>>

MirrorIdle ==
  /\ mrPc = "idle"
  /\ mrCanonicals = <<>>
  /\ mrUrls = <<>>

ConcurrentIdle ==
  /\ ccSite = "none"
  /\ ccRobots = NoRobotsAnswer
  /\ crawls = <<>>
  /\ ccMixed = FALSE

AiMirrorIdle ==
  /\ ajPc = "idle"
  /\ ajPayload = [url |-> Shape("empty"), forceRefresh |-> FALSE]
  /\ ajStore = <<>>
  /\ ajAnswer = NoAiAnswer
  /\ ajResult = [outcome |-> "none"]
  /\ ajStatus = 0
  /\ ajCached = FALSE
  /\ ajLog = <<>>

UnitsIdle ==
  NormalizeIdle /\ SanitizeIdle /\ AnalyzeIdle /\ ExtractIdle /\ MdfIdle
  /\ StructureIdle /\ MirrorIdle /\ ConcurrentIdle /\ AiMirrorIdle

RobotsIdle ==
  /\ rbPc = "idle"
  /\ rbLines = <<>>
  /\ rbPath = <<>>
  /\ rbChecker = defaultRobots
  /\ rbAnswer = TRUE

CrawlStart ==
  /\ root = [ok |-> FALSE, url |-> Url(<<>>, <<>>)]
  /\ depthLimit = 0
  /\ robots = defaultRobots
  /\ robotsResp = NoRobotsAnswer
  /\ queue = <<>>
  /\ visited = {}
  /\ recorded = {}
  /\ pages = <<>>
  /\ current = NoItem
  /\ status = 0
  /\ fetchLog = <<>>
  /\ docs = {}
  /\ enqLog = {}
  /\ outcomeLog = <<>>
  /\ created = <<>>
  /\ dequeued = <<>>
  /\ answer = NoAnswer

Init ==
  /\ pc = "request"
  /\ payload \in [url : RootInputs, maxDepth : DepthInputs]
  /\ site \in Sites(payload)
  /\ CrawlStart
  /\ RobotsIdle
  /\ UnitsIdle

Next ==
  \/ Request
  \/ LoadRobots
  \/ Dequeue
  \/ FetchReturn
  \/ Finish

Spec == Init /\ [][Next]_vars
(***************************************************************************)
(* The robots evaluator on its own: a robots.txt of at most MaxRobotsLines *)
(* lines is parsed, then the checker is asked about paths.                 *)
(***************************************************************************)
MaxRobotsLines == 3

RobotsLinePool ==
  { UaStar,
    <<"u", "s", "e", "r", "-", "a", "g", "e", "n", "t", ":", "b", "o", "t">>,
    DisallowLine(PA),
    DisallowLine(<<"/", "a", "/", "b", "/", "c">>),
    <<"D", "I", "S", "A", "L", "L", "O", "W", " ", ":", "b", " ">>,
    <<"D", "i", "s", "a", "l", "l", "o", "w", ":">>,
    DisallowLine(<<"/", "*", ".", "j", "s">>),
    AllowLine(<<"/", "a", "/", "b">>),
    AllowLine(PRoot),
    <<"#", "A", "l", "l", "o", "w", ":", " ", "/">> }

RobotsFiles ==
  UNION { [1..n -> RobotsLinePool] : n \in 0..MaxRobotsLines }

RobotsPaths ==
  { PRoot, PA, PB, <<"/", "a", "/", "b">>, <<"/", "a", "/", "b", "/", "c">>,
    <<"/", "a", "b">>, PScript, <<"/", "c", "/", "x", ".", "j", "s", "o", "n">> }

CrawlIdle ==
  /\ pc = "idle"
  /\ payload = [url |-> Shape("empty"),
                maxDepth |-> [given |-> FALSE, nan |-> FALSE, val |-> 0]]
  /\ site = "chain"
  /\ CrawlStart

(* parseRobots(text) *)
RobotsParse ==
  /\ rbPc = "input"
  /\ rbChecker' = parseRobots(rbLines)
  /\ rbPc' = "parsed"
  /\ UNCHANGED <<rbLines, rbPath, rbAnswer, crawlVars, unitVars>>

(* robots.allows(path) *)
RobotsAsk ==
  /\ rbPc \in {"parsed", "answered"}
  /\ \E p \in RobotsPaths :
       /\ rbPath' = p
       /\ rbAnswer' = allows(rbChecker, p)
  /\ rbPc' = "answered"
  /\ UNCHANGED <<rbLines, rbChecker, crawlVars, unitVars>>

InitRobots ==
  /\ CrawlIdle
  /\ rbPc = "input"
  /\ rbLines \in RobotsFiles
  /\ rbPath = <<>>
  /\ rbChecker = defaultRobots
  /\ rbAnswer = TRUE
  /\ UnitsIdle

NextRobots ==
  \/ RobotsParse
  \/ RobotsAsk

SpecRobots == InitRobots /\ [][NextRobots]_vars

(***************************************************************************)
(* The two URL normalizers on their own: a string is normalized, then the  *)
(* result is normalized again.                                             *)
(***************************************************************************)
NormalizeSchemes == {HTTP, HTTPS, <<"H", "T", "T", "P">>, <<"H", "t", "t", "p", "S">>}

NormalizeHosts == {HostS, HostWwwS, HostUpper}

NormalizePaths ==
  { <<>>, PRoot, PA, <<"/", "a", "/">>, <<"/", "a", "/", "/">>, <<"/", "/">>,
    <<"/", "A", "/", "b">> }

NormalizeQueries == { <<>>, <<"q", "=", "1">> }

NormalizeFragments == { <<>>, <<"f">> }

(* The strings handed to normalizeUrl. *)
NormalizeInputs ==
  { Abs(sc, h, p, q, f) : sc \in NormalizeSchemes, h \in NormalizeHosts,
                          p \in NormalizePaths, q \in NormalizeQueries,
                          f \in NormalizeFragments }
  \cup { [NoScheme(h, p) EXCEPT !.query = q, !.frag = f] :
            h \in NormalizeHosts, p \in NormalizePaths,
            q \in NormalizeQueries, f \in NormalizeFragments }
  \cup { [Rel(p) EXCEPT !.query = q, !.frag = f] :
            p \in NormalizePaths \ {<<>>},
            q \in NormalizeQueries, f \in NormalizeFragments }
  \cup { Shape("bad"), Shape("empty") }

(* The base argument: absent, or the canonical URL of the page a link was  *)
(* found on (crawl mode only).                                             *)
NormalizeBases(mode) ==
  IF mode = "crawl"
  THEN {NoBase, WithBase(Url(HostS, <<"/", "d", "/", "e">>))}
  ELSE {NoBase}

normalize(mode, input, base) ==
  IF mode = "crawl" THEN normalizeUrl(input, base)
  ELSE normalizeUrlExtraction(input)

(* normalize(u) *)
NormalizeOnce ==
  /\ nzPc = "input"
  /\ nzOnce' = normalize(nzMode, nzInput, nzBase)
  /\ nzPc' = IF nzOnce'.ok THEN "once" ELSE "threw"
  /\ UNCHANGED <<nzMode, nzInput, nzBase, nzTwice, crawlVars, robotsVars,
                 sanitizeVars, analyzeVars, extractVars, mdfVars,
                 structureVars, mirrorVars, concurrentVars, aiMirrorVars>>

(* normalize(normalize(u)): the returned string is handed in again. *)
NormalizeAgain ==
  /\ nzPc = "once"
  /\ nzTwice' = normalize(nzMode, Href(nzOnce.url), NoBase)
  /\ nzPc' = "twice"
  /\ UNCHANGED <<nzMode, nzInput, nzBase, nzOnce, crawlVars, robotsVars,
                 sanitizeVars, analyzeVars, extractVars, mdfVars,
                 structureVars, mirrorVars, concurrentVars, aiMirrorVars>>

InitNormalize ==
  /\ CrawlIdle
  /\ RobotsIdle
  /\ nzPc = "input"
  /\ nzMode \in {"crawl", "extraction"}
  /\ nzInput \in NormalizeInputs
  /\ nzBase \in NormalizeBases(nzMode)
  /\ nzOnce = [ok |-> FALSE]
  /\ nzTwice = [ok |-> FALSE]
  /\ SanitizeIdle
  /\ AnalyzeIdle
  /\ ExtractIdle
  /\ MdfIdle
  /\ StructureIdle
  /\ MirrorIdle
  /\ ConcurrentIdle
  /\ AiMirrorIdle

NextNormalize ==
  \/ NormalizeOnce
  \/ NormalizeAgain

SpecNormalize == InitNormalize /\ [][NextNormalize]_vars

(***************************************************************************)
(* sanitizeMarkdown on its own: a text of at most MaxSanitizeLines lines   *)
(* is sanitized, then passes 1, 2, 3 and 7 are run on the result.          *)
(***************************************************************************)
MaxSanitizeLines == 3

Dashes(n) == [k \in 1..n |-> "-"]

SanitizeLinePool ==
  { <<"P", "l", "e", "a", "s", "e", " ", "W", "a", "i", "t">>,
    <<"w", "e", " ", "P", "L", "E", "A", "S", "E", " ", "w", "a", "i", "t">>,
    Dashes(20),
    Dashes(10) \o <<"e", "x", "p", "l", "o", "r", "e", " ", "m", "o", "r", "e", " ">>
      \o Dashes(11),
    <<"E", "x", "p", "l", "o", "r", "e", " ", "M", "o", "r", "e", " ", "-">>,
    <<"-", " ", "1", ".", " ", "N", "o", "t", "e", "s">>,
    <<"C", "o", "n", "t", "e", "n", "t", " ", "P", "l", "a", "n", "n", "e", "r">>,
    <<"w", "e", " ", "s", "h", "i", "p", ".">>,
    <<>>,
    <<"o", "k">> }

SanitizeTexts ==
  { JoinWith(lines, NL) :
      lines \in UNION { [1..n -> SanitizeLinePool] : n \in 1..MaxSanitizeLines } }

(* sanitizeMarkdown(rawText) *)
Sanitize ==
  /\ szPc = "input"
  /\ szOnce' = sanitizeMarkdown(szText)
  /\ szPc' = "once"
  /\ UNCHANGED <<szText, szAgain, crawlVars, robotsVars, normalizeVars,
                 analyzeVars, extractVars, mdfVars, structureVars,
                 mirrorVars, concurrentVars, aiMirrorVars>>

(* The noise passes on the sanitized text. *)
SanitizeAgain ==
  /\ szPc = "once"
  /\ szAgain' = noisePasses(szOnce)
  /\ szPc' = "twice"
  /\ UNCHANGED <<szText, szOnce, crawlVars, robotsVars, normalizeVars,
                 analyzeVars, extractVars, mdfVars, structureVars,
                 mirrorVars, concurrentVars, aiMirrorVars>>

InitSanitize ==
  /\ CrawlIdle
  /\ RobotsIdle
  /\ NormalizeIdle
  /\ szPc = "input"
  /\ szText \in SanitizeTexts
  /\ szOnce = <<>>
  /\ szAgain = <<>>
  /\ AnalyzeIdle
  /\ ExtractIdle
  /\ MdfIdle
  /\ StructureIdle
  /\ MirrorIdle
  /\ ConcurrentIdle
  /\ AiMirrorIdle

NextSanitize ==
  \/ Sanitize
  \/ SanitizeAgain

SpecSanitize == InitSanitize /\ [][NextSanitize]_vars

(***************************************************************************)
(* analyzeMarkdownStructure on its own.                                    *)
(***************************************************************************)
(* What extractSections may return. *)
SectionFlags ==
  [hasTitle : BOOLEAN, hasUrl : BOOLEAN, hasContent : BOOLEAN,
   hasMetadata : BOOLEAN, hasFrontmatter : BOOLEAN]

(* What calculateMetrics may return: counts on both sides of every         *)
(* threshold the analysis uses.                                            *)
MetricValues ==
  [wordCount : {0, 49, 50, 99, 100, 101, 300, 301}, paragraphCount : {0, 2, 3},
   headingCount : {0, 1, 3, 4}, listCount : {0, 1}, codeBlockCount : {0, 1},
   linkCount : {0, 1}]

TextTests == [longParagraph : BOOLEAN, fence : BOOLEAN, uiNoise : BOOLEAN]

(* The analyses of one text that fit together: a title line is a heading,  *)
(* a paragraph of more than 200 words needs that many words, a code block  *)
(* needs a fence, and no words means no UI noise phrase.                   *)
AnalyzerInputs ==
  { in \in [sections : SectionFlags, metrics : MetricValues, markdown : TextTests] :
      /\ in.sections.hasTitle => in.metrics.headingCount > 0
      /\ in.markdown.longParagraph => in.metrics.wordCount > 200
      /\ in.metrics.codeBlockCount > 0 => in.markdown.fence
      /\ in.markdown.uiNoise => in.metrics.wordCount > 0 }

(* analyzeMarkdownStructure(markdown) *)
Analyze ==
  /\ anPc = "input"
  /\ anWarnings' = validateStructure(anInput.markdown, anInput.sections, anInput.metrics)
  /\ anHealth' = calculateHealthScore(anInput.sections, anInput.metrics, anWarnings')
  /\ anReadability' = analyzeAIReadability(anInput.markdown, anInput.sections,
                                           anInput.metrics)
  /\ anPc' = "done"
  /\ UNCHANGED <<anInput, crawlVars, robotsVars, normalizeVars, sanitizeVars,
                 extractVars, mdfVars, structureVars, mirrorVars,
                 concurrentVars, aiMirrorVars>>

InitAnalyze ==
  /\ CrawlIdle
  /\ RobotsIdle
  /\ NormalizeIdle
  /\ SanitizeIdle
  /\ anPc = "input"
  /\ anInput \in AnalyzerInputs
  /\ anWarnings = <<>>
  /\ anHealth = NoHealth
  /\ anReadability = NoReadability
  /\ ExtractIdle
  /\ MdfIdle
  /\ StructureIdle
  /\ MirrorIdle
  /\ ConcurrentIdle
  /\ AiMirrorIdle

NextAnalyze == Analyze

SpecAnalyze == InitAnalyze /\ [][NextAnalyze]_vars

(***************************************************************************)
(* POST /api/extract: one request.                                         *)
(***************************************************************************)
(* payload.url after the typeof test and trim(): "empty" stands for a body *)
(* without a usable url.                                                   *)
ExtractUrls ==
  { Shape("empty"), Shape("bad"), NoScheme(HostS, PA), Rel(PA) }
  \cup { Abs(sc, h, p, <<>>, <<>>) : sc \in {HTTP, HTTPS}, h \in {HostS, HostWwwS, HostUpper},
                                    p \in {PRoot, PA} }

(* The answers of the origin: unreachable, or a status, a content type, a  *)
(* body that can be read or not, and its length.                           *)
ExtractAnswers ==
  { NoExtractAnswer }
  \cup { [reached |-> TRUE, code |-> c, html |-> FALSE, bodyFails |-> FALSE, bytes |-> 10] :
           c \in {403, 404, 500, 503} }
  \cup { [reached |-> TRUE, code |-> 200, html |-> h, bodyFails |-> FALSE, bytes |-> b] :
           h \in BOOLEAN, b \in {0, 1000, MAX_DOCUMENT_BYTES_EXTRACTION + 1} }
  \cup { [reached |-> TRUE, code |-> 200, html |-> TRUE, bodyFails |-> TRUE, bytes |-> 1000] }

(* Lines 4-15: the payload is read; without a url the answer is 400,       *)
(* otherwise extractStructuredContent is called and awaited.               *)
ExtractRequest ==
  /\ exPc = "request"
  /\ IF exUrl.kind = "empty"
     THEN /\ exPc' = "done"
          /\ exStatus' = 400
          /\ exBody' = "Provide a valid URL in the request body."
     ELSE /\ exPc' = "extract"
          /\ UNCHANGED <<exStatus, exBody>>
  /\ UNCHANGED <<exUrl, exResp, crawlVars, robotsVars, normalizeVars,
                 sanitizeVars, analyzeVars, mdfVars, structureVars,
                 mirrorVars, concurrentVars, aiMirrorVars>>

(* Lines 15-29: the extraction returns or throws and the answer is sent. *)
ExtractReturn ==
  /\ exPc = "extract"
  /\ \E resp \in (IF FetchAccepts(exUrl) THEN ExtractAnswers ELSE {NoExtractAnswer}) :
       LET result == extractStructuredContent(exUrl, resp)
       IN  /\ exResp' = resp
           /\ IF result.outcome = "content"
              THEN /\ exStatus' = 200
                   /\ exBody' = "mdf"
              ELSE /\ exStatus' = CatchStatus(result)
                   /\ exBody' = result.message
  /\ exPc' = "done"
  /\ UNCHANGED <<exUrl, crawlVars, robotsVars, normalizeVars, sanitizeVars,
                 analyzeVars, mdfVars, structureVars, mirrorVars,
                 concurrentVars, aiMirrorVars>>

InitExtract ==
  /\ CrawlIdle
  /\ RobotsIdle
  /\ NormalizeIdle
  /\ SanitizeIdle
  /\ AnalyzeIdle
  /\ exPc = "request"
  /\ exUrl \in ExtractUrls
  /\ exResp = NoExtractAnswer
  /\ exStatus = 0
  /\ exBody = ""
  /\ MdfIdle
  /\ StructureIdle
  /\ MirrorIdle
  /\ ConcurrentIdle
  /\ AiMirrorIdle

NextExtract ==
  \/ ExtractRequest
  \/ ExtractReturn

SpecExtract == InitExtract /\ [][NextExtract]_vars

(***************************************************************************)
(* formatAsMdf on its own: an ExtractionResult whose markdown body has at  *)
(* most MaxBodyLines lines is formatted.                                   *)
(***************************************************************************)
MaxBodyLines == 3

BodyLinePool ==
  { <<"S", "o", "m", "e", " ", "t", "e", "x", "t", ".">>, <<>>, <<"#", "#", " ", "N", "o", "t", "e", "s">>, <<"#", "#", "#", " ", "D", "e", "t", "a", "i", "l", "s">>, <<"-", " ", "i", "t", "e", "m">> }

(* The bodies toMarkdown can return: trimmed, not empty, without three     *)
(* line feeds in a row.                                                    *)
MdfBodies ==
  { body \in { JoinWith(lines, NL) :
                 lines \in UNION { [1..n -> BodyLinePool] : n \in 1..MaxBodyLines } } :
      /\ body # <<>>
      /\ TrimSpace(body) = body
      /\ ReplaceAll("blank lines", body, 1) = body }

MdfMetadata ==
  { NoMetadata,
    [author |-> <<"A", "n", "n">>, published |-> <<"2", "0", "2", "4", "-", "0", "1", "-", "0", "2">>, updated |-> <<>>,
     language |-> <<"e", "n">>, contentType |-> <<"a", "r", "t", "i", "c", "l", "e">>,
     primaryTopics |-> << <<"m", "a", "p", "s">>, <<"t", "i", "l", "e", "s">> >>, entities |-> << <<"A", "n", "n">> >>] }

MdfResults ==
  { [title |-> t, url |-> UrlText(u), canonical |-> UrlText(c), markdown |-> b,
     metadata |-> m] :
      t \in { <<"H", "o", "m", "e">>, <<"U", "n", "t", "i", "t", "l", "e", "d">> },
      u \in { Url(HostS, PA) },
      c \in { Url(HostS, PA), Url(HostWwwS, PRoot) },
      b \in MdfBodies, m \in MdfMetadata }

(* formatAsMdf(result) *)
FormatMdf ==
  /\ mdPc = "input"
  /\ mdOut' = formatAsMdf(mdResult)
  /\ mdPc' = "done"
  /\ UNCHANGED <<mdResult, crawlVars, robotsVars, normalizeVars, sanitizeVars,
                 analyzeVars, extractVars, structureVars, mirrorVars,
                 concurrentVars, aiMirrorVars>>

InitMdf ==
  /\ CrawlIdle
  /\ RobotsIdle
  /\ NormalizeIdle
  /\ SanitizeIdle
  /\ AnalyzeIdle
  /\ ExtractIdle
  /\ mdPc = "input"
  /\ mdResult \in MdfResults
  /\ mdOut = <<>>
  /\ StructureIdle
  /\ MirrorIdle
  /\ ConcurrentIdle
  /\ AiMirrorIdle

NextMdf == FormatMdf

SpecMdf == InitMdf /\ [][NextMdf]_vars

(***************************************************************************)
(* buildStructuredContent on its own: the markdown of an extraction, of at *)
(* most MaxMarkdownLines lines, is structured as POST does it.             *)
(***************************************************************************)
MaxMarkdownLines == 3

MarkdownLinePool ==
  { <<"#", " ", "G", "u", "i", "d", "e">>, <<"#", "#", " ", "S", "e", "t", "u", "p">>, <<"R", "u", "n", " ", "i", "t", ".", " ", "T", "h", "e", "n", " ", "s", "t", "o", "p", "!">>, <<"S", "e", "e", " ", "[", "d", "o", "c", "s", "]", "(", "u", ")", " ", "n", "o", "w", ".">>,
    <<"A", ".", " ", "B", ".", " ", "C", ".", " ", "D", ".", " ", "E", ".", " ", "F", ".">>, <<"U", "s", "e", " ", BackTick, "n", "p", "m", BackTick, " ", "o", "r", " ", BackTick, BackTick, BackTick, "s", "h", BackTick, BackTick, BackTick, " ", "h", "e", "r", "e", "?">>, <<>> }

MarkdownTexts ==
  { body \in { JoinWith(lines, NL) :
                 lines \in UNION { [1..n -> MarkdownLinePool] : n \in 1..MaxMarkdownLines } } :
      /\ body # <<>>
      /\ TrimSpace(body) = body
      /\ ReplaceAll("blank lines", body, 1) = body }

(* Lines 36-38: sentences and structured content of result.markdown. *)
Structure ==
  /\ scPc = "input"
  /\ scSentences' = splitSentences(stripMarkdown(scMarkdown))
  /\ scStructured' = Bind(LAMBDA sentences : buildStructuredContent(scMarkdown, sentences),
                          splitSentences(stripMarkdown(scMarkdown)))
  /\ scPc' = "done"
  /\ UNCHANGED <<scMarkdown, crawlVars, robotsVars, normalizeVars, sanitizeVars,
                 analyzeVars, extractVars, mdfVars, mirrorVars,
                 concurrentVars, aiMirrorVars>>

InitStructure ==
  /\ CrawlIdle
  /\ RobotsIdle
  /\ NormalizeIdle
  /\ SanitizeIdle
  /\ AnalyzeIdle
  /\ ExtractIdle
  /\ MdfIdle
  /\ scPc = "input"
  /\ scMarkdown \in MarkdownTexts
  /\ scSentences = <<>>
  /\ scStructured = <<>>
  /\ MirrorIdle
  /\ ConcurrentIdle
  /\ AiMirrorIdle

NextStructure == Structure

SpecStructure == InitStructure /\ [][NextStructure]_vars

(***************************************************************************)
(* buildMirrorUrl on its own: the mirror URLs of the canonicals of two     *)
(* extractions are built.                                                  *)
(***************************************************************************)
(* result.canonical: what collectCanonical or the final URL of the fetch   *)
(* gives, an absolute URL without fragment.                                *)
MirrorCanonicals ==
  { Abs(sc, h, p, q, <<>>) : sc \in {HTTP, HTTPS}, h \in {HostS, HostWwwS, HostOther},
                             p \in {PRoot, PA}, q \in {<<>>, <<"q", "=", "1">>} }

(* Lines 34-35 of two requests. *)
BuildMirrorUrls ==
  /\ mrPc = "input"
  /\ mrUrls' = [k \in DOMAIN mrCanonicals |-> buildMirrorUrl(mrCanonicals[k])]
  /\ mrPc' = "done"
  /\ UNCHANGED <<mrCanonicals, crawlVars, robotsVars, normalizeVars,
                 sanitizeVars, analyzeVars, extractVars, mdfVars, structureVars,
                 concurrentVars, aiMirrorVars>>

InitMirror ==
  /\ CrawlIdle
  /\ RobotsIdle
  /\ NormalizeIdle
  /\ SanitizeIdle
  /\ AnalyzeIdle
  /\ ExtractIdle
  /\ MdfIdle
  /\ StructureIdle
  /\ mrPc = "input"
  /\ mrCanonicals \in MirrorCanonicals \X MirrorCanonicals
  /\ mrUrls = <<>>
  /\ ConcurrentIdle
  /\ AiMirrorIdle

NextMirror == BuildMirrorUrls

SpecMirror == InitMirror /\ [][NextMirror]_vars

(***************************************************************************)
(* The AI-mirror JSON endpoint: up to MaxPosts POST requests, one after    *)
(* the other, against one collection of stored documents.  Every await     *)
(* (the lookup, the extraction, the save) ends a step.  ajLog keeps, for   *)
(* each answered POST, what was asked and what was done.                   *)
(***************************************************************************)
MaxPosts == 2

(* payload.url after the typeof test and trim(), and payload.forceRefresh. *)
AiUrls ==
  { Shape("empty"), Shape("bad"), NoScheme(HostS, PA),
    Abs(HTTPS, HostS, PA, <<>>, <<>>), Abs(HTTPS, HostS, <<>>, <<>>, <<>>),
    Abs(HTTPS, HostUpper, PA, <<>>, <<>>) }

AiPayloads == [url : AiUrls, forceRefresh : BOOLEAN]

(* The answers of the origin: unreachable, a non-2xx status, an unusable   *)
(* 2xx answer, or a document, reached directly or through a redirect, with *)
(* or without a canonical link.                                            *)
AiAnswers ==
  { [fetch |-> f, finalUrl |-> NoRedirect, canonical |-> NoRedirect] :
      f \in { NoExtractAnswer,
              [reached |-> TRUE, code |-> 404, html |-> FALSE, bodyFails |-> FALSE, bytes |-> 10],
              [reached |-> TRUE, code |-> 503, html |-> FALSE, bodyFails |-> FALSE, bytes |-> 10],
              [reached |-> TRUE, code |-> 200, html |-> FALSE, bodyFails |-> FALSE, bytes |-> 1000],
              [reached |-> TRUE, code |-> 200, html |-> TRUE, bodyFails |-> TRUE, bytes |-> 1000],
              [reached |-> TRUE, code |-> 200, html |-> TRUE, bodyFails |-> FALSE, bytes |-> 0] } }
  \cup
  { [fetch |-> [reached |-> TRUE, code |-> 200, html |-> TRUE, bodyFails |-> FALSE,
                bytes |-> 1000],
     finalUrl |-> m, canonical |-> c] :
      m \in { NoRedirect, [present |-> TRUE, value |-> Abs(HTTPS, HostWwwS, PA, <<>>, <<>>)] },
      c \in { NoRedirect, [present |-> TRUE, value |-> Rel(PRoot)] } }

(* NextResponse.json(...) of the POST under way. *)
Respond(code, cached, extracted, inserted) ==
  /\ ajPc' = "done"
  /\ ajStatus' = code
  /\ ajCached' = cached
  /\ ajLog' = Append(ajLog, [url |-> InputText(ajPayload.url),
                             forceRefresh |-> ajPayload.forceRefresh,
                             status |-> code, cached |-> cached,
                             extracted |-> extracted, inserted |-> inserted,
                             answer |-> ajAnswer'])

(* Lines 13-22: the payload is read; without a url the answer is 400. *)
AiRequest ==
  /\ ajPc = "request"
  /\ UNCHANGED <<ajPayload, ajStore, ajAnswer, ajResult>>
  /\ IF ajPayload.url.kind = "empty"
     THEN Respond(400, FALSE, FALSE, FALSE)
     ELSE /\ ajPc' = "lookup"
          /\ UNCHANGED <<ajStatus, ajCached, ajLog>>
  /\ UNCHANGED <<crawlVars, robotsVars, normalizeVars, sanitizeVars, analyzeVars,
                 extractVars, mdfVars, structureVars, mirrorVars, concurrentVars>>

(* Lines 24-31: getAIMirrorByUrl(inputUrl) returns or rejects (the         *)
(* database cannot be reached); a stored document is returned with         *)
(* cached: true unless forceRefresh is set.                                *)
AiLookup ==
  /\ ajPc = "lookup"
  /\ UNCHANGED <<ajPayload, ajStore, ajAnswer, ajResult>>
  /\ \E up \in BOOLEAN :
       IF ~up
       THEN Respond(400, FALSE, FALSE, FALSE)
       ELSE LET cached == getAIMirrorByUrl(ajStore, InputText(ajPayload.url))
            IN  IF cached.found /\ ~ajPayload.forceRefresh
                THEN Respond(200, TRUE, FALSE, FALSE)
                ELSE /\ ajPc' = "extract"
                     /\ UNCHANGED <<ajStatus, ajCached, ajLog>>
  /\ UNCHANGED <<crawlVars, robotsVars, normalizeVars, sanitizeVars, analyzeVars,
                 extractVars, mdfVars, structureVars, mirrorVars, concurrentVars>>

(* Lines 33, 82-90: extractStructuredContent returns or throws; whatever   *)
(* it throws is answered by the catch of the handler.  The origin is only  *)
(* asked when the url normalizes.                                          *)
AiExtract ==
  /\ ajPc = "extract"
  /\ \E resp \in (IF normalizeUrlExtraction(ajPayload.url).ok
                  THEN AiAnswers ELSE {NoAiAnswer}) :
       LET result == extractStructuredContentExtraction(ajPayload.url, resp)
       IN  /\ ajAnswer' = resp
           /\ ajResult' = result
           /\ IF result.outcome = "result"
              THEN /\ ajPc' = "save"
                   /\ UNCHANGED <<ajStatus, ajCached, ajLog>>
              ELSE Respond(400, FALSE, TRUE, FALSE)
  /\ UNCHANGED <<ajPayload, ajStore>>
  /\ UNCHANGED <<crawlVars, robotsVars, normalizeVars, sanitizeVars, analyzeVars,
                 extractVars, mdfVars, structureVars, mirrorVars, concurrentVars>>

(* Lines 34-81: the response body is built, saveAIMirrorData stores the    *)
(* document under the canonical (a failing save is only logged), and the   *)
(* body is returned.                                                       *)
AiSave ==
  /\ ajPc = "save"
  /\ UNCHANGED <<ajPayload, ajAnswer, ajResult>>
  /\ \E up \in BOOLEAN :
       /\ ajStore' = IF up
                     THEN saveAIMirrorData(ajStore, [source_url |-> ajResult.canonical])
                     ELSE ajStore
       /\ Respond(200, FALSE, TRUE, up)
  /\ UNCHANGED <<crawlVars, robotsVars, normalizeVars, sanitizeVars, analyzeVars,
                 extractVars, mdfVars, structureVars, mirrorVars, concurrentVars>>

(* The next POST arrives. *)
AiNextPost ==
  /\ ajPc = "done"
  /\ Len(ajLog) < MaxPosts
  /\ ajPayload' \in AiPayloads
  /\ ajPc' = "request"
  /\ ajAnswer' = NoAiAnswer
  /\ ajResult' = [outcome |-> "none"]
  /\ ajStatus' = 0
  /\ ajCached' = FALSE
  /\ UNCHANGED <<ajStore, ajLog>>
  /\ UNCHANGED <<crawlVars, robotsVars, normalizeVars, sanitizeVars, analyzeVars,
                 extractVars, mdfVars, structureVars, mirrorVars, concurrentVars>>

InitAiMirror ==
  /\ CrawlIdle
  /\ RobotsIdle
  /\ NormalizeIdle
  /\ SanitizeIdle
  /\ AnalyzeIdle
  /\ ExtractIdle
  /\ MdfIdle
  /\ StructureIdle
  /\ MirrorIdle
  /\ ConcurrentIdle
  /\ ajPc = "request"
  /\ ajPayload \in AiPayloads
  /\ ajStore = <<>>
  /\ ajAnswer = NoAiAnswer
  /\ ajResult = [outcome |-> "none"]
  /\ ajStatus = 0
  /\ ajCached = FALSE
  /\ ajLog = <<>>

NextAiMirror ==
  \/ AiRequest
  \/ AiLookup
  \/ AiExtract
  \/ AiSave
  \/ AiNextPost

SpecAiMirror == InitAiMirror /\ [][NextAiMirror]_vars

(***************************************************************************)
(* Two POST requests of the crawl endpoint served at the same time.  Every *)
(* await (the robots.txt fetch, each fetchPage) ends a step, and the steps *)
(* of the two invocations interleave in any order.  The origin answers a   *)
(* URL the same way each time it is asked.  crawls[i] holds the locals of  *)
(* invocation i; ccMixed records that an invocation took a step while the  *)
(* other one was under way.                                                *)
(***************************************************************************)
Invocations == 1..2

ConcurrentPayloads ==
  [url : {Abs(HTTPS, HostS, PRoot, <<>>, <<>>), Abs(HTTPS, HostS, PA, <<>>, <<>>)},
   maxDepth : {[given |-> FALSE, nan |-> FALSE, val |-> 0],
               [given |-> TRUE, nan |-> FALSE, val |-> 1]}]

ConcurrentRobots ==
  {NoRobotsAnswer, RobotsAnswer(TRUE, TRUE, FALSE, <<UaStar, DisallowLine(PB)>>)}

PageOf(s, url) == IF s = "chain" THEN ChainPage(url) ELSE MeshPage(url)

Locals(request) ==
  [pc |-> "request", payload |-> request,
   root |-> [ok |-> FALSE, url |-> Url(<<>>, <<>>)], depthLimit |-> 0,
   robots |-> defaultRobots, queue |-> <<>>, visited |-> {}, recorded |-> {},
   pages |-> <<>>, current |-> NoItem, status |-> 0]

UnderWay(c) == c.pc \in {"robots", "loop", "fetch"}

Step(i, c) ==
  /\ crawls' = [crawls EXCEPT ![i] = c]
  /\ ccMixed' = (ccMixed \/ \E j \in Invocations \ {i} : UnderWay(crawls[j]))
  /\ UNCHANGED <<ccSite, ccRobots, crawlVars, robotsVars, normalizeVars,
                 sanitizeVars, analyzeVars, extractVars, mdfVars, structureVars,
                 mirrorVars, aiMirrorVars>>

(* Lines 288-309 of invocation i. *)
ConcRequest(i) ==
  LET c              == crawls[i]
      normalizedRoot == normalizeUrl(c.payload.url, NoBase)
  IN  /\ c.pc = "request"
      /\ IF c.payload.url.kind = "empty" \/ ~normalizedRoot.ok
         THEN Step(i, [c EXCEPT !.pc = "failed", !.status = 400])
         ELSE Step(i, [c EXCEPT !.pc = "robots",
                                !.root = [ok |-> TRUE, url |-> normalizedRoot.url],
                                !.depthLimit = clamp(depthSetting(c.payload.maxDepth),
                                                     1, MAX_DEPTH)])

(* Lines 309-314 of invocation i. *)
ConcLoadRobots(i) ==
  LET c == crawls[i]
  IN  /\ c.pc = "robots"
      /\ Step(i, [c EXCEPT !.pc = "loop",
                           !.robots = robotsOrDefault(ccRobots),
                           !.queue = <<[url |-> c.root.url, depth |-> 0]>>,
                           !.visited = {}, !.recorded = {}, !.pages = <<>>])

(* Lines 316-336 of invocation i. *)
ConcDequeue(i) ==
  LET c                 == crawls[i]
      item              == Head(c.queue)
      normalizedCurrent == normalizeUrl(Href(item.url), NoBase)
      popped            == [c EXCEPT !.queue = Shift(c.queue)]
  IN  /\ c.pc = "loop"
      /\ LoopContinues(c.queue, c.pages)
      /\ IF ~normalizedCurrent.ok
         THEN Step(i, [popped EXCEPT !.pc = "failed", !.status = 400])
         ELSE IF AlreadyVisited(Visited(crawls, i), normalizedCurrent.url)
         THEN Step(i, popped)
         ELSE LET marked == [popped EXCEPT !.visited =
                                Visited(crawls, i) \cup {normalizedCurrent.url}]
              IN  IF PassesFilters(c.root.url, c.robots, normalizedCurrent.url)
                  THEN Step(i, [marked EXCEPT !.pc = "fetch",
                                              !.current = [url |-> normalizedCurrent.url,
                                                           depth |-> item.depth]])
                  ELSE Step(i, marked)

(* Lines 336-387 of invocation i. *)
ConcFetchReturn(i) ==
  LET c            == crawls[i]
      page         == fetchPage(PageOf(ccSite, c.current.url))
      canonicalUrl == normalizeUrl(IF page.canonical.present
                                   THEN page.canonical.value
                                   ELSE page.finalUrl, NoBase)
  IN  /\ c.pc = "fetch"
      /\ IF page.outcome = "throws"
         THEN Step(i, [c EXCEPT !.pc = "failed", !.status = 400])
         ELSE IF page.outcome = "undefined"
         THEN Step(i, [c EXCEPT !.pc = "loop"])
         ELSE IF ~canonicalUrl.ok
         THEN Step(i, [c EXCEPT !.pc = "failed", !.status = 400])
         ELSE IF ~CanonicalAccepted(c.root.url, c.robots, canonicalUrl.url)
         THEN Step(i, [c EXCEPT !.pc = "loop"])
         ELSE LET fresh == NeedsRecord(c.recorded, canonicalUrl.url)
              IN  Step(i, [c EXCEPT
                     !.pc = "loop",
                     !.pages = IF fresh
                               THEN Push(@, PageEntry(canonicalUrl.url, c.root.url,
                                                        page.document))
                               ELSE @,
                     !.recorded = IF fresh THEN @ \cup {canonicalUrl.url} ELSE @,
                     !.queue = IF MayDiscover(c.current.depth, c.depthLimit)
                               THEN EnqueueLinks(@, page.links, canonicalUrl.url,
                                                 c.current.depth, c.root.url,
                                                 c.robots, Visited(crawls, i))
                               ELSE @])

(* Lines 316, 390-421 of invocation i. *)
ConcFinish(i) ==
  LET c == crawls[i]
  IN  /\ c.pc = "loop"
      /\ ~LoopContinues(c.queue, c.pages)
      /\ Step(i, [c EXCEPT !.pc = "done", !.status = 200])

InitConcurrent ==
  /\ CrawlIdle
  /\ RobotsIdle
  /\ NormalizeIdle
  /\ SanitizeIdle
  /\ AnalyzeIdle
  /\ ExtractIdle
  /\ MdfIdle
  /\ StructureIdle
  /\ MirrorIdle
  /\ ccSite \in {"chain", "mesh"}
  /\ ccRobots \in ConcurrentRobots
  /\ crawls \in [Invocations -> {Locals(request) : request \in ConcurrentPayloads}]
  /\ ccMixed = FALSE
  /\ AiMirrorIdle

NextConcurrent ==
  \E i \in Invocations :
    \/ ConcRequest(i)
    \/ ConcLoadRobots(i)
    \/ ConcDequeue(i)
    \/ ConcFetchReturn(i)
    \/ ConcFinish(i)

SpecConcurrent == InitConcurrent /\ [][NextConcurrent]_vars

(***************************************************************************)
(* Properties of the crawl.                                                *)
(***************************************************************************)
FetchedUrls == {fetchLog[i].url : i \in DOMAIN fetchLog}

PageUrls == {pages[i].url : i \in DOMAIN pages}

LoopEntered == pc \in {"loop", "fetch", "done"} \/ (pc = "failed" /\ root.ok)

(* C1: no duplicate fetch.  fetchPage is called at most once for each      *)
(* distinct normalized URL, and every URL it is called with is already in  *)
(* the visited set.                                                        *)
C1_NoDuplicateFetch ==
  /\ \A i, j \in DOMAIN fetchLog :
       fetchLog[i].url = fetchLog[j].url => i = j
  /\ FetchedUrls \subseteq visited

(* A URL that was queued at two different depths has been fetched, and the *)
(* crawl has run to its end.                                               *)
C1_Witness ==
  /\ pc = "done"
  /\ \E a, b \in enqLog :
       /\ a.url = b.url
       /\ a.depth # b.depth
       /\ a.url \in FetchedUrls

(* C2: one record per canonical.  pages never holds two entries with the   *)
(* same url, and every document that reached the record step is            *)
(* represented by exactly one entry, whose url is the document's canonical.*)
C2_OneRecordPerCanonical ==
  /\ \A i, j \in DOMAIN pages : pages[i].url = pages[j].url => i = j
  /\ \A d \in docs :
       Cardinality({i \in DOMAIN pages : pages[i].url = d.canonical}) = 1

(* Two different fetched URLs gave documents with one and the same         *)
(* canonical, which is neither of the two.                                 *)
C2_Witness ==
  \E d, e \in docs :
    /\ d.from # e.from
    /\ d.canonical = e.canonical
    /\ d.canonical \notin {d.from, e.from}

(* The documented clamp of maxDepth: 3 when omitted, else the integer      *)
(* brought into [1,4] (1 when it is not a number).                         *)
ExpectedDepthLimit ==
  LET m == payload.maxDepth
  IN  IF ~m.given THEN 3
      ELSE IF m.nan THEN 1
      ELSE IF m.val < 1 THEN 1
      ELSE IF m.val > 4 THEN 4
      ELSE m.val

C4_PageBudget == Len(pages) <= 120

(* The crawl returned with exactly 120 pages while links were still queued.*)
C4_Witness ==
  /\ pc = "done"
  /\ status = 200
  /\ Len(pages) = 120
  /\ queue # <<>>

(* The host of a URL, lower-cased and without one leading "www." label.    *)
BareHost(u) ==
  LET h == [i \in DOMAIN u.host |-> Lower(u.host[i])]
  IN  IF Len(h) > 1 /\ h[1] = <<"w", "w", "w">> THEN Tail(h) ELSE h

(* C5: host containment.  Every recorded page has the root's host, up to   *)
(* letter case and one leading "www.".                                     *)
C5_HostContainment ==
  \A i \in DOMAIN pages : BareHost(pages[i].url) = BareHost(root.url)

(* A fetched document named a canonical on another host and was refused,   *)
(* while other pages were recorded.                                        *)
C5_Witness ==
  /\ pc = "done"
  /\ pages # <<>>
  /\ \E i \in DOMAIN outcomeLog :
       /\ outcomeLog[i] = "canonical refused"
       /\ fetchLog[i].url.path = PLoginx

(* C6 as stated: whenever the crawl loop has been left, the queue is empty *)
(* or pages holds 120 entries.                                             *)
C6_ExitCondition ==
  (LoopEntered /\ pc \in {"done", "failed"}) =>
    (queue = <<>> \/ Len(pages) = 120)

(* C7 as stated: once the root URL is normalized, the request is never     *)
(* answered with an error.                                                 *)
C7_NoErrorAfterRoot ==
  root.ok => (pc # "failed" /\ status # 400)

(* C8: blocked paths.  No URL with a blocked path is fetched or recorded.  *)
C8_BlockedNeverFetched ==
  \A u \in FetchedUrls \cup PageUrls : ~isBlockedPath(u)

(* The home page of the mesh origin, which links to /login, /a.js and      *)
(* /Admin/x, was fetched and recorded, and the crawl ran to its end.       *)
C8_Witness ==
  /\ pc = "done"
  /\ site = "mesh"
  /\ Len(outcomeLog) > 1
  /\ outcomeLog[1] = "recorded"
  /\ fetchLog[1].url.path = PRoot

RobotsFailed ==
  ~robotsResp.reached \/ ~robotsResp.okStatus \/ robotsResp.bodyFails

RobotsLoaded == root.ok /\ pc \in {"loop", "fetch", "done", "failed"}

(* C11: robots failure.  When the fetch of /robots.txt fails or is answered *)
(* with a non-2xx status, the checker in use allows every path, the loop   *)
(* is entered with the root queued, the root is fetched unless its own     *)
(* path is a blocked one, and an error answer can only come from a page    *)
(* fetched later.                                                          *)
C11_RobotsFailurePermissive ==
  (RobotsLoaded /\ RobotsFailed) =>
    /\ \A p \in RobotsPaths \cup {root.url.path} : allows(robots, p)
    /\ (visited = {} /\ pc = "loop") =>
          queue = <<[url |-> root.url, depth |-> 0]>>
    /\ pc \in {"done", "failed"} =>
          \/ fetchLog # <<>>
          \/ pc = "done" /\ isBlockedPath(root.url)
    /\ fetchLog # <<>> => fetchLog[1] = [url |-> root.url, depth |-> 0]

(* /robots.txt was answered with a non-2xx status and a body that disallows *)
(* everything, and the crawl returned 200 with several pages.              *)
C11_Witness ==
  /\ robotsResp.reached
  /\ ~robotsResp.okStatus
  /\ robotsResp.lines # <<>>
  /\ pc = "done"
  /\ status = 200
  /\ Len(pages) >= 2

PageTypes == {"homepage", "product", "docs", "article", "category"}

(* The documented priority of a page type, in hundredths. *)
ExpectedPriority(type) ==
  CASE type = "homepage" -> 100
    [] type = "product" -> 80
    [] type = "docs" -> 80
    [] type = "article" -> 60
    [] type = "category" -> 50

(* C14: priority by type.  Every entry of pages has one of the five page   *)
(* types and carries that type's documented priority: 1.00 for homepage,   *)
(* 0.80 for product and docs, 0.60 for article, 0.50 for category.         *)
C14_PriorityByType ==
  \A i \in DOMAIN pages :
    /\ pages[i].type \in PageTypes
    /\ pages[i].priority = ExpectedPriority(pages[i].type)

(* One crawl recorded a homepage, an article, a product page and a docs    *)
(* page and returned them.                                                 *)
C14_Witness ==
  /\ pc = "done"
  /\ \A t \in {"homepage", "article", "product", "docs"} :
       \E i \in DOMAIN pages :
         pages[i].type = t /\ pages[i].priority = priorityForType(t)

C13_CanonicalShape ==
  nzPc \in {"once", "twice"} =>
    /\ nzOnce.url.scheme = HTTPS
    /\ nzOnce.url.frag = <<>>
    /\ nzMode = "crawl" =>
          /\ nzOnce.url.query = <<>>
          /\ nzOnce.url.path = PRoot \/ ~EndsWith(nzOnce.url.path, <<"/">>)
    /\ nzMode = "extraction" => nzOnce.url.query = nzInput.query

(***************************************************************************)
(* Properties of sanitizeMarkdown.                                         *)
(***************************************************************************)
(* C15 as stated: running passes 1, 2, 3 and 7 on a sanitized text leaves  *)
(* it as it is.                                                            *)
C15_NoisePassesFixedPoint ==
  szPc = "twice" => szAgain = szOnce

(* C16 as stated: no line of a sanitized text holds a phrase of the noise  *)
(* list, in any letter case.                                               *)
C16_NoNoiseLineLeft ==
  szPc \in {"once", "twice"} =>
    \A k \in DOMAIN noisePhrases :
      \A line \in {Lines(szOnce)[n] : n \in DOMAIN Lines(szOnce)} :
        ~Contains(Lower(line), Lower(noisePhrases[k]))

(***************************************************************************)
(* Properties of the structure analyzer.                                   *)
(***************************************************************************)
(* C17: score bounds.  For every analysed text, the empty one included,    *)
(* the health score and the AI readability score lie between 0 and 100.    *)
C17_ScoreBounds ==
  anPc = "done" =>
    /\ 0 <= anHealth.score /\ anHealth.score <= 100
    /\ 0 <= anReadability.score /\ anReadability.score <= 100

(* The empty string was analysed: two errors and three warnings use up the *)
(* 20 penalty points and the health score is 0.                            *)
C17_Witness ==
  /\ anPc = "done"
  /\ anInput = EmptyMarkdown
  /\ Len(anWarnings) = 6
  /\ anHealth.score = 0
  /\ anReadability.score = 65

(* The documented health score of the analysed text. *)
ExpectedHealthScore ==
  LET sec == anInput.sections
      met == anInput.metrics
      errors   == Cardinality({k \in DOMAIN anWarnings : anWarnings[k].severity = "error"})
      warnings == Cardinality({k \in DOMAIN anWarnings : anWarnings[k].severity = "warning"})
      penalty  == 20 - 10 * errors - 3 * warnings
  IN  (IF sec.hasTitle THEN 10 ELSE 0) + (IF sec.hasFrontmatter THEN 10 ELSE 0)
      + (IF sec.hasUrl THEN 10 ELSE 0) + (IF sec.hasContent THEN 5 ELSE 0)
      + (IF sec.hasMetadata THEN 5 ELSE 0)
      + (IF met.wordCount > 100 THEN 10 ELSE 0) + (IF met.wordCount > 300 THEN 5 ELSE 0)
      + (IF met.headingCount > 0 THEN 10 ELSE 0) + (IF met.headingCount > 3 THEN 5 ELSE 0)
      + (IF met.paragraphCount > 2 THEN 5 ELSE 0) + (IF met.listCount > 0 THEN 5 ELSE 0)
      + (IF penalty > 0 THEN penalty ELSE 0)

(* C18: health score and grade.  The health score is the sum of the        *)
(* section points, the richness points and max(0, 20 - 10*errors -         *)
(* 3*warnings), info entries not counted; the grade is Excellent from 85,  *)
(* Good from 70, Fair from 50 and Poor below.                              *)
C18_HealthScoreAndGrade ==
  anPc = "done" =>
    /\ anHealth.score = ExpectedHealthScore
    /\ anHealth.grade = "Excellent" <=> anHealth.score >= 85
    /\ anHealth.grade = "Good" <=> (70 <= anHealth.score /\ anHealth.score < 85)
    /\ anHealth.grade = "Fair" <=> (50 <= anHealth.score /\ anHealth.score < 70)
    /\ anHealth.grade = "Poor" <=> anHealth.score < 50

(* A text with one warning and two info entries scored 72 (55 points and  *)
(* 17 of the 20 penalty points) and was graded Good.                       *)
C18_Witness ==
  /\ anPc = "done"
  /\ CountSeverity(anWarnings, "info") = 2
  /\ CountSeverity(anWarnings, "warning") = 1
  /\ CountSeverity(anWarnings, "error") = 0
  /\ anHealth.score = 72
  /\ anHealth.grade = "Good"

(***************************************************************************)
(* Properties of the extraction endpoint.                                  *)
(***************************************************************************)
(* The url of the request cannot be parsed as an http(s) address, with     *)
(* "https://" put in front when it names no protocol.                      *)
ExtractUrlUnusable == exUrl.kind = "empty" \/ ~normalizeUrlExtraction(exUrl).ok

(* The origin answered 2xx with something that is not a usable HTML        *)
(* document: another content type, no bytes, or more than 3 MiB.           *)
ExtractNotHtml ==
  /\ exResp.reached
  /\ 200 <= exResp.code /\ exResp.code <= 299
  /\ ~exResp.bodyFails
  /\ ~exResp.html \/ exResp.bytes = 0 \/ exResp.bytes > MAX_DOCUMENT_BYTES_EXTRACTION

ExtractUpstreamDown == ~exResp.reached \/ exResp.code >= 500

(* C19 as stated: a finished request with a missing or unparsable url is   *)
(* answered 400; with a usable url, a response that is not HTML, empty or  *)
(* over 3 MiB is answered 400 and an unreachable origin or a 5xx answer is *)
(* answered 502; none of these failures is answered with a 2xx status.     *)
C19_ClassifiedFailure ==
  exPc = "done" =>
    /\ ExtractUrlUnusable => exStatus = 400
    /\ (~ExtractUrlUnusable /\ ExtractNotHtml) => exStatus = 400
    /\ (~ExtractUrlUnusable /\ ExtractUpstreamDown) => exStatus = 502
    /\ (ExtractUrlUnusable \/ ExtractNotHtml \/ ExtractUpstreamDown)
          => ~(200 <= exStatus /\ exStatus <= 299)

C25_AppendOnly ==
  [][/\ Len(pages) <= Len(pages')
     /\ SubSeq(pages', 1, Len(pages)) = pages
     /\ visited \subseteq visited'
     /\ recorded \subseteq recorded']_vars

C25_Witness ==
  /\ pc = "done"
  /\ \E i, j \in DOMAIN pages : i < j /\ pages[i].priority < pages[j].priority
  /\ Cardinality(visited) > Len(pages)

(***************************************************************************)
(* Properties of the filter chain of the crawl.                            *)
(***************************************************************************)
SkippedAtDequeue(u) ==
  \/ u \in visited
  \/ ~isSameHost(root.url, u)
  \/ ~allows(robots, u.path)
  \/ isBlockedPath(u)

SkippedAfterFetch(resp) ==
  LET page      == fetchPage(resp)
      canonical == normalizeUrl(IF page.canonical.present
                                THEN page.canonical.value
                                ELSE page.finalUrl, NoBase)
  IN  \/ page.outcome = "undefined"
      \/ /\ page.outcome = "page"
         /\ canonical.ok
         /\ \/ ~isSameHost(root.url, canonical.url)
            \/ isBlockedPath(canonical.url)
            \/ ~allows(robots, canonical.url.path)

(* C26: a dequeued URL that is already visited, on another host, disallowed *)
(* by robots or blocked is dropped without a fetch, a record or a push; a   *)
(* fetch that returns undefined or whose canonical is on another host,      *)
(* blocked or disallowed adds no record and pushes nothing; every fetch is  *)
(* of a URL that was not in visited and is in visited from then on, so a    *)
(* skipped URL is never fetched again.                                      *)
C26_SkippedLeavesNoTrace ==
  [][/\ (pc = "loop" /\ dequeued' # dequeued) =>
          LET u == Head(queue).url
          IN  /\ SkippedAtDequeue(u) =>
                   /\ pages' = pages
                   /\ recorded' = recorded
                   /\ queue' = Tail(queue)
                   /\ fetchLog' = fetchLog
                   /\ pc' = "loop"
                   /\ u \in visited'
              /\ fetchLog' # fetchLog =>
                   /\ fetchLog'[Len(fetchLog')].url = u
                   /\ u \notin visited
                   /\ u \in visited'
     /\ (pc = "fetch" /\ pc' # "fetch" /\ SkippedAfterFetch(answer')) =>
          /\ pages' = pages
          /\ recorded' = recorded
          /\ queue' = queue
          /\ pc' = "loop"
          /\ current.url \in visited']_vars

C26_Witness ==
  /\ pc = "done"
  /\ \E i, j \in DOMAIN dequeued : i < j /\ dequeued[i].url = dequeued[j].url
  /\ \E k \in DOMAIN outcomeLog : outcomeLog[k] = "undefined"
  /\ \E k \in DOMAIN outcomeLog : outcomeLog[k] = "canonical refused"
  /\ Len(dequeued) > Len(fetchLog) + 1
  /\ Len(pages) >= 2

(***************************************************************************)
(* Properties of link discovery.                                           *)
(***************************************************************************)
Enqueued == SubSeq(queue', Len(queue) + 1, Len(queue'))

CanonicalOf(resp) ==
  LET page == fetchPage(resp)
  IN  normalizeUrl(IF page.canonical.present THEN page.canonical.value
                   ELSE page.finalUrl, NoBase)

RecordStepReached(resp) ==
  /\ fetchPage(resp).outcome = "page"
  /\ CanonicalOf(resp).ok
  /\ ~SkippedAfterFetch(resp)

(* C27: every item a step pushes on the queue is on the host of the root,  *)
(* not blocked, allowed by robots, not in visited and one level below the   *)
(* page it was found on; when a page below the depth limit is accepted,     *)
(* every href of it that normalizes and passes these tests is pushed, also  *)
(* the ones after an href that does not normalize, and the crawl goes on.   *)
C27_EnqueueConditions ==
  [][pc = "fetch" =>
       /\ Len(queue') >= Len(queue)
       /\ SubSeq(queue', 1, Len(queue)) = queue
       /\ \A k \in DOMAIN Enqueued :
            LET item == Enqueued[k]
            IN  /\ isSameHost(root.url, item.url)
                /\ ~isBlockedPath(item.url)
                /\ allows(robots, item.url.path)
                /\ item.url \notin visited
                /\ item.depth = current.depth + 1
       /\ (pc' # "fetch" /\ RecordStepReached(answer')) =>
            /\ pc' = "loop"
            /\ LET links == fetchPage(answer').links
                   base  == WithBase(CanonicalOf(answer').url)
               IN  \A i \in DOMAIN links :
                     LET link == normalizeUrl(links[i], base)
                     IN  ( /\ current.depth < depthLimit
                           /\ link.ok
                           /\ isSameHost(root.url, link.url)
                           /\ ~isBlockedPath(link.url)
                           /\ allows(robots, link.url.path)
                           /\ link.url \notin visited )
                         <=> ( /\ link.ok
                               /\ \E k \in DOMAIN Enqueued :
                                    Enqueued[k].url = link.url )]_vars

C27_Witness ==
  /\ site = "mesh"
  /\ pc = "done"
  /\ \E k \in DOMAIN created :
       /\ created[k].url.path = PE
       /\ created[k].depth = 2
  /\ \E k \in DOMAIN fetchLog : fetchLog[k].url.path = PE
  /\ \A k \in DOMAIN created : created[k].url.host # HostOther

(***************************************************************************)
(* Properties of the order of the crawl.                                   *)
(***************************************************************************)
NonDecreasingDepth(items) ==
  \A i, j \in DOMAIN items : i < j => items[i].depth <= items[j].depth

(* C29: the items leave the queue in non-decreasing depth order, the ones   *)
(* still waiting are no shallower than any that left, and every fetch of a  *)
(* URL happens at the smallest depth at which that URL was ever put on the  *)
(* queue.                                                                   *)
C29_BreadthFirst ==
  /\ NonDecreasingDepth(dequeued \o queue)
  /\ \A k \in DOMAIN fetchLog :
       /\ \E c \in DOMAIN created :
            /\ created[c].url = fetchLog[k].url
            /\ created[c].depth = fetchLog[k].depth
       /\ \A c \in DOMAIN created :
            created[c].url = fetchLog[k].url =>
              created[c].depth >= fetchLog[k].depth

C29_Witness ==
  /\ pc = "done"
  /\ \E i, j \in DOMAIN created :
       /\ created[i].url = created[j].url
       /\ created[i].depth < created[j].depth
       /\ \E k \in DOMAIN fetchLog : fetchLog[k] = created[i]
  /\ \A d \in 0..2 :
       Cardinality({k \in DOMAIN dequeued : dequeued[k].depth = d}) >= 1
  /\ Cardinality({k \in DOMAIN dequeued : dequeued[k].depth = 1}) >= 2

(***************************************************************************)
(* Properties of the AI-mirror JSON endpoint.                              *)
(***************************************************************************)
UpstreamFailed(resp) ==
  \/ ~resp.fetch.reached
  \/ ~(200 <= resp.fetch.code /\ resp.fetch.code <= 299)

UnsupportedContent(resp) ==
  /\ ~UpstreamFailed(resp)
  /\ \/ ~resp.fetch.html
     \/ resp.fetch.bytes = 0
     \/ resp.fetch.bytes > MAX_DOCUMENT_BYTES_EXTRACTION

(* The POST under way called fetch and has been answered. *)
FetchAnswered ==
  /\ ajPc = "done"
  /\ ajResult.outcome # "none"
  /\ normalizeUrlExtraction(ajPayload.url).ok

(* C28: a POST of the AI-mirror JSON endpoint whose origin is unreachable   *)
(* or answers non-2xx is answered 502, and a POST answered 400 had no url,  *)
(* an invalid url or an origin that returned unsupported content.           *)
C28_UpstreamFailureIs502 ==
  /\ (FetchAnswered /\ UpstreamFailed(ajAnswer)) => ajStatus = 502
  /\ (ajPc = "done" /\ ajStatus = 400) =>
       \/ ajPayload.url.kind = "empty"
       \/ ajResult.outcome # "none" /\ ~normalizeUrlExtraction(ajPayload.url).ok
       \/ FetchAnswered /\ UnsupportedContent(ajAnswer)

(* C30: once a POST for a url was answered 200 and its document inserted,   *)
(* every later POST with the same url is answered from the store with       *)
(* cached: true, without extraction and without insert, unless it asks for  *)
(* forceRefresh, and then the extraction runs again.                        *)
C30_AnsweredFromStore ==
  \A i, j \in DOMAIN ajLog :
    ( /\ i < j
      /\ ajLog[i].status = 200
      /\ ajLog[i].inserted
      /\ ajLog[j].url = ajLog[i].url ) =>
        IF ajLog[j].forceRefresh
        THEN ajLog[j].extracted
        ELSE /\ ajLog[j].status = 200
             /\ ajLog[j].cached
             /\ ~ajLog[j].extracted
             /\ ~ajLog[j].inserted

(***************************************************************************)
(* Properties of concurrent crawl requests.                                *)
(***************************************************************************)
Returned(c) == c.pc \in {"done", "failed"}

Result(c) == [status |-> c.status, pages |-> c.pages]

AiPrefixed(canonical) == [canonical EXCEPT !.host = << <<"a", "i">> >> \o @]

(* C22 as stated: the mirror URL is the canonical with "ai." in front of   *)
(* its host, and two different canonicals never get the same mirror URL.   *)
C22_MirrorReversible ==
  mrPc = "done" =>
    /\ \A k \in DOMAIN mrUrls : mrUrls[k] = AiPrefixed(mrCanonicals[k])
    /\ mrCanonicals[1] # mrCanonicals[2] => mrUrls[1] # mrUrls[2]

(***************************************************************************)
(* Properties of buildStructuredContent.                                   *)
(***************************************************************************)
HasSectionLine(markdown) ==
  \E k \in DOMAIN Lines(markdown) : StartsWith(Lines(markdown)[k], <<"#", "#", " ">>)

(* C21 as stated: the result has at least one section and no section has   *)
(* more than 5 facts; for a markdown without a line that starts with "## " *)
(* the result is the single section "Overview" whose facts are the first   *)
(* (at most 5) sentences of the stripped markdown.                         *)
C21_OverviewFallback ==
  scPc = "done" =>
    /\ Len(scStructured) >= 1
    /\ \A k \in DOMAIN scStructured : Len(scStructured[k].facts) <= 5
    /\ ~HasSectionLine(scMarkdown) =>
         scStructured = << [section |-> <<"O", "v", "e", "r", "v", "i", "e", "w">>, facts |-> Slice(scSentences, 5)] >>

(***************************************************************************)
(* Properties of formatAsMdf.                                              *)
(***************************************************************************)
(* The texts of the lines of a document that start with "## ", in order. *)
SectionHeadings(text) ==
  LET lines    == Lines(text)
      marker   == <<"#", "#", " ">>
      headings == SelectSeq(lines, LAMBDA line : StartsWith(line, marker))
  IN  [k \in DOMAIN headings |-> SubSeq(headings[k], Len(marker) + 1, Len(headings[k]))]

(* C20 as stated: the lines of the formatted document that start with      *)
(* "## " are URL, Canonical, Content, Metadata, Schema Hints, in this      *)
(* order and with nothing else between them.                               *)
C20_FixedSections ==
  mdPc = "done" =>
    SectionHeadings(mdOut) =
      << <<"U", "R", "L">>, <<"C", "a", "n", "o", "n", "i", "c", "a", "l">>, <<"C", "o", "n", "t", "e", "n", "t">>, <<"M", "e", "t", "a", "d", "a", "t", "a">>, <<"S", "c", "h", "e", "m", "a", " ", "H", "i", "n", "t", "s">> >>

(***************************************************************************)
(* Properties of the robots evaluator.                                     *)
(***************************************************************************)
AllowRules == {rbChecker.allow[i] : i \in DOMAIN rbChecker.allow}

DisallowRules == {rbChecker.disallow[i] : i \in DOMAIN rbChecker.disallow}

(* C10: the robots decision.  The answer for a path is TRUE when the path  *)
(* matches some Allow rule; otherwise FALSE exactly when the path matches  *)
(* some Disallow rule (so at least one exists); otherwise TRUE.            *)
C10_RobotsDecision ==
  rbPc = "answered" =>
    rbAnswer =
      IF \E r \in AllowRules : matchesRule(rbPath, r)
      THEN TRUE
      ELSE ~(DisallowRules # {} /\ \E r \in DisallowRules : matchesRule(rbPath, r))

(* A path that matches an Allow rule and also a longer Disallow rule given *)
(* before it in the file was answered TRUE.                                *)
C10_Witness ==
  /\ rbPc = "answered"
  /\ rbAnswer = TRUE
  /\ \E i \in DOMAIN rbLines, j \in DOMAIN rbLines :
       /\ i < j
       /\ rbLines[i] = DisallowLine(<<"/", "a", "/", "b", "/", "c">>)
       /\ rbLines[j] = AllowLine(<<"/", "a", "/", "b">>)
  /\ rbPath = <<"/", "a", "/", "b", "/", "c">>
  /\ \E r \in DisallowRules : matchesRule(rbPath, r)
====
